---- MODULE Spec2Model ----
(***************************************************************************)
(* RefundRajaV2: the reconciliation engine (parser/services/order_merger)  *)
(* over the Order / OrderProduct tables (orders/models).                   *)
(*                                                                         *)
(* Amounts and prices are whole currency units, dates are day numbers,     *)
(* confidences are hundredths (0.7 is 70).  A string field that is None,   *)
(* '' or a missing key is "" (all three are falsy and the code only tests  *)
(* truthiness); a numeric field that is None is None, a missing dict key   *)
(* is Absent.  Fields that no step of the merger reads back (currency,     *)
(* seller_name, raw_email, the source tag and shipping_amount of           *)
(* parsed_json, return_reason, return_requested_at, returned_at) are left  *)
(* out of the rows.                                                        *)
(***************************************************************************)
EXTENDS Integers, Sequences, FiniteSets, TLC

VARIABLES
    orders,     \* the Order table in creation order, each row with its OrderProduct rows
    last,       \* the last call on the tables: its arguments, what it did, the rows concerned
    today,      \* timezone.now().date()
    call,       \* a call of one of the parser's pure functions: its argument and result
    inbox,      \* sync_gmail: the retrieved messages not yet processed
    results,    \* sync_gmail: the outcomes appended so far
    raw_emails, \* the RawEmail table
    requests    \* per request thread, a create_or_update_order call in progress

vars == <<orders, last, today, call, inbox, results, raw_emails, requests>>

\* Python None in a numeric or date field.
None == -1
\* A key that the parsed_data dict does not have.
Absent == -2

\* Python truthiness of a number, a date, None or a missing key.
Truthy(x) == x \notin {None, Absent, 0}

\* dict.get(key, default)
Get(v, default) == IF v = Absent THEN default ELSE v

\* dict.get(key): a missing key reads as None
GetNone(v) == IF v = Absent THEN None ELSE v

\* The least number of a non-empty set
Least(S) == CHOOSE n \in S : \A k \in S : n <= k

\* return_window_days=parsed_data.get('return_window_days', 30)
DefaultReturnWindow == 30

\* needs_review is parsed_confidence < 0.7
ReviewThreshold == 70

\* __iexact: case-insensitive comparison of merchant names
Lower(s) ==
    CASE s = "Myntra" -> "myntra"
      [] s = "MYNTRA" -> "myntra"
      [] s = "H&M" -> "h&m"
      [] OTHER -> s

\* order.parsed_json before any tracking information is stored
NoTracking ==
    [tracking_number |-> "", logistics_partner |-> "", tracking_url |-> "",
     shipping_date |-> "", estimated_delivery |-> ""]

\* str(date) as stored in the tracking blob
DateStr(d) == ToString(d)

(***************************************************************************)
(* orders/models.py                                                        *)
(***************************************************************************)

\* Order.calculate_return_deadline
calculate_return_deadline(o) ==
    IF Truthy(o.delivery_date) /\ Truthy(o.return_window_days)
    THEN o.delivery_date + o.return_window_days
    ELSE None

RECURSIVE SumProducts(_)
SumProducts(ps) ==
    IF ps = <<>> THEN 0
    ELSE Head(ps).product_price * Head(ps).product_quantity + SumProducts(Tail(ps))

\* Order.calculate_total_amount
calculate_total_amount(o) == SumProducts(o.products)

\* Order.save: the return deadline is recomputed from the current inputs
Order_save(o) == [o EXCEPT !.return_deadline = calculate_return_deadline(o)]

\* OrderProduct.calculate_return_deadline, p a product of the in-memory order o
OrderProduct_calculate_return_deadline(p, o) ==
    IF Truthy(p.return_deadline) THEN p.return_deadline
    ELSE IF Truthy(o.delivery_date) /\ Truthy(o.return_window_days)
         THEN o.delivery_date + o.return_window_days
         ELSE None

\* OrderProduct.save: fills in the deadline only when the product has none
OrderProduct_save(p, o) ==
    IF ~Truthy(p.return_deadline)
    THEN [p EXCEPT !.return_deadline = OrderProduct_calculate_return_deadline(p, o)]
    ELSE p

\* OrderProduct.RETURN_STATUS_CHOICES
RETURN_STATUS_CHOICES == {"not_returned", "return_requested", "returned", "return_rejected"}

\* OrderProduct.can_return on the day `day`
can_return(p, o, day) ==
    IF p.return_status \in {"returned", "return_rejected"} THEN FALSE
    ELSE IF Truthy(OrderProduct_calculate_return_deadline(p, o))
         THEN day <= OrderProduct_calculate_return_deadline(p, o)
         ELSE FALSE

\* OrderProduct.request_return up to self.save(): the product it saves, or the
\* product as it is when the method returns False
RequestReturn(p, o, day) ==
    IF can_return(p, o, day) THEN [p EXCEPT !.return_status = "return_requested"] ELSE p

\* MarkReturned as it would be without the test of the current status
MarkReturned_Unguarded(p) == [p EXCEPT !.return_status = "returned"]

\* OrderProduct.mark_returned up to self.save()
MarkReturned(p) ==
    IF p.return_status = "return_requested"
    THEN [p EXCEPT !.return_status = "returned"]
    ELSE p

\* update_order_total_on_product_save as it would be if it left total_amount alone
update_order_total_on_product_save_KeepsTotal(o) == Order_save(o)

\* post_save receiver of OrderProduct: instance.order is the in-memory order the
\* merger holds (the related manager and objects.create both hand it over), so
\* its total_amount is overwritten in memory as well as in the table, and
\* Order.save recomputes its in-memory return_deadline.
update_order_total_on_product_save(o) ==
    Order_save([o EXCEPT !.total_amount = calculate_total_amount(o)])

\* post_delete receiver of OrderProduct: save(update_fields=['total_amount'])
\* stores the total and nothing else
update_order_total_on_product_delete(o) ==
    [o EXCEPT !.total_amount = calculate_total_amount(o)]

\* product.delete() of the i-th product of o, followed by the post_delete signal
DeleteProduct(o, i) ==
    update_order_total_on_product_delete(
        [o EXCEPT !.products =
            SubSeq(o.products, 1, i - 1) \o SubSeq(o.products, i + 1, Len(o.products))])

\* product.save() of the i-th product of o, followed by the post_save signal
SaveProduct(o, i, p) ==
    update_order_total_on_product_save(
        [o EXCEPT !.products[i] = OrderProduct_save(p, o)])

\* OrderProduct.objects.create(order=o, ...), followed by the post_save signal
CreateProduct(o, p) ==
    update_order_total_on_product_save(
        [o EXCEPT !.products = Append(@, OrderProduct_save(p, o))])

(***************************************************************************)
(* parser/services/order_merger.py                                         *)
(***************************************************************************)

\* An OrderProduct row built from a parsed product d with the given deadline
NewProduct(d, deadline) ==
    [product_name |-> d.name, product_size |-> d.size,
     product_quantity |-> d.quantity, product_price |-> d.price,
     return_deadline |-> deadline, return_status |-> "not_returned"]

\* order.products.filter(product_name=name).first(): products are ordered by
\* created_at, so the first is the oldest; 0 when there is none
FirstByName(o, name) ==
    LET hits == {i \in 1..Len(o.products) : o.products[i].product_name = name}
    IN  IF hits = {} THEN 0 ELSE CHOOSE i \in hits : \A j \in hits : i <= j

\* OrderProduct.objects.filter(order=order, product_name=.., product_size=..).first()
FirstByNameSize(o, name, size) ==
    LET hits == {i \in 1..Len(o.products) :
                    /\ o.products[i].product_name = name
                    /\ o.products[i].product_size = size}
    IN  IF hits = {} THEN 0 ELSE CHOOSE i \in hits : \A j \in hits : i <= j

\* update_products_with_prices as it would be if its second branch were
\* `elif product_data.get('name')`: a listed product that was not priced is created
RECURSIVE update_products_with_prices_CreatesUnpriced(_, _)
update_products_with_prices_CreatesUnpriced(o, products_data) ==
    IF products_data = <<>> THEN o
    ELSE LET d == Head(products_data)
             i == FirstByName(o, d.name)
             o1 == IF i # 0 /\ Truthy(d.price)
                   THEN SaveProduct(o, i, [o.products[i] EXCEPT !.product_price = d.price])
                   ELSE IF d.name # ""
                        THEN CreateProduct(o, NewProduct(d, o.return_deadline))
                        ELSE o
         IN  update_products_with_prices_CreatesUnpriced(o1, Tail(products_data))

\* update_products_with_prices as it would be if it added the listed quantity to
\* a product it finds, the way the creation loop does
RECURSIVE update_products_with_prices_SumsQuantity(_, _)
update_products_with_prices_SumsQuantity(o, products_data) ==
    IF products_data = <<>> THEN o
    ELSE LET d == Head(products_data)
             i == FirstByName(o, d.name)
             o1 == IF i # 0 /\ Truthy(d.price)
                   THEN SaveProduct(o, i, [o.products[i] EXCEPT
                                             !.product_price = d.price,
                                             !.product_quantity = @ + d.quantity])
                   ELSE IF i = 0 /\ d.name # ""
                        THEN CreateProduct(o, NewProduct(d, o.return_deadline))
                        ELSE o
         IN  update_products_with_prices_SumsQuantity(o1, Tail(products_data))

\* OrderMerger.update_products_with_prices
RECURSIVE update_products_with_prices(_, _)
update_products_with_prices(o, products_data) ==
    IF products_data = <<>> THEN o
    ELSE LET d == Head(products_data)
             i == FirstByName(o, d.name)
             o1 == IF i # 0 /\ Truthy(d.price)
                   THEN SaveProduct(o, i, [o.products[i] EXCEPT !.product_price = d.price])
                   ELSE IF i = 0 /\ d.name # ""
                        THEN CreateProduct(o, NewProduct(d, o.return_deadline))
                        ELSE o
         IN  update_products_with_prices(o1, Tail(products_data))

RECURSIVE UpdateDeadlinesFrom(_, _)
UpdateDeadlinesFrom(o, i) ==
    IF i > Len(o.products) THEN o
    ELSE UpdateDeadlinesFrom(
             SaveProduct(o, i, [o.products[i] EXCEPT !.return_deadline = o.return_deadline]),
             i + 1)

\* OrderMerger.update_product_return_deadlines: every product, oldest first,
\* takes the in-memory order's return_deadline as it is at that iteration
update_product_return_deadlines(o) == UpdateDeadlinesFrom(o, 1)

\* update_order_from_email, email_type == "confirmation"
MergeConfirmation(o, rec) ==
    LET o1 == IF Truthy(rec.amount) THEN [o EXCEPT !.total_amount = rec.amount] ELSE o
        o2 == IF Truthy(rec.order_date) THEN [o1 EXCEPT !.order_date = rec.order_date] ELSE o1
    IN  update_products_with_prices(o2, rec.products)

\* MergeDelivery as it would be if it stored a new tracking dict instead of
\* adding to the stored one
MergeDelivery_FreshTracking(o, rec) ==
    LET o1 == IF Truthy(rec.delivery_date)
              THEN [o EXCEPT !.delivery_date = rec.delivery_date] ELSE o
        o2 == IF Truthy(rec.return_deadline)
              THEN [o1 EXCEPT !.return_deadline = rec.return_deadline] ELSE o1
        o3 == IF Truthy(rec.amount) /\ (~Truthy(o2.total_amount) \/ o2.total_amount = 0)
              THEN [o2 EXCEPT !.total_amount = rec.amount] ELSE o2
        o4 == IF rec.tracking_number # "" \/ rec.tracking_url # ""
              THEN [o3 EXCEPT
                      !.tracking = [NoTracking EXCEPT
                                      !.tracking_number = rec.tracking_number,
                                      !.tracking_url = rec.tracking_url]]
              ELSE o3
    IN  update_product_return_deadlines(o4)

\* update_order_from_email, email_type == "delivery"
MergeDelivery(o, rec) ==
    LET o1 == IF Truthy(rec.delivery_date)
              THEN [o EXCEPT !.delivery_date = rec.delivery_date] ELSE o
        o2 == IF Truthy(rec.return_deadline)
              THEN [o1 EXCEPT !.return_deadline = rec.return_deadline] ELSE o1
        o3 == IF Truthy(rec.amount) /\ (~Truthy(o2.total_amount) \/ o2.total_amount = 0)
              THEN [o2 EXCEPT !.total_amount = rec.amount] ELSE o2
        o4 == IF rec.tracking_number # "" \/ rec.tracking_url # ""
              THEN [o3 EXCEPT
                      !.tracking.tracking_number =
                          IF rec.tracking_number # "" THEN rec.tracking_number ELSE @,
                      !.tracking.tracking_url =
                          IF rec.tracking_url # "" THEN rec.tracking_url ELSE @]
              ELSE o3
    IN  update_product_return_deadlines(o4)

\* MergeShipping as it would be if the shipping branch stored the record's
\* amount the way the confirmation branch does
MergeShipping_StoresAmount(o, rec) ==
    LET o1 == IF Truthy(rec.amount) THEN [o EXCEPT !.total_amount = rec.amount] ELSE o
    IN  IF Truthy(rec.estimated_delivery)
        THEN [o1 EXCEPT
                !.tracking.estimated_delivery = DateStr(rec.estimated_delivery),
                !.delivery_date = IF ~Truthy(@) THEN rec.estimated_delivery ELSE @]
        ELSE o1

\* MergeShipping as it would be if the estimated delivery replaced a delivery
\* date that is already set
MergeShipping_OverwritesDeliveryDate(o, rec) ==
    LET o1 == IF rec.tracking_number # ""
              THEN [o EXCEPT !.tracking.tracking_number = rec.tracking_number] ELSE o
    IN  IF Truthy(rec.estimated_delivery)
        THEN [o1 EXCEPT
                !.tracking.estimated_delivery = DateStr(rec.estimated_delivery),
                !.delivery_date = rec.estimated_delivery]
        ELSE o1

\* update_order_from_email, email_type == "shipping"
MergeShipping(o, rec) ==
    LET o1 == IF rec.tracking_number # ""
              THEN [o EXCEPT !.tracking.tracking_number = rec.tracking_number] ELSE o
        o2 == IF Truthy(rec.estimated_delivery)
              THEN [o1 EXCEPT
                      !.tracking.estimated_delivery = DateStr(rec.estimated_delivery),
                      !.delivery_date =
                          IF ~Truthy(@) THEN rec.estimated_delivery ELSE @]
              ELSE o1
        o3 == IF rec.logistics_partner # ""
              THEN [o2 EXCEPT !.tracking.logistics_partner = rec.logistics_partner] ELSE o2
        o4 == IF rec.tracking_url # ""
              THEN [o3 EXCEPT !.tracking.tracking_url = rec.tracking_url] ELSE o3
    IN  IF Truthy(rec.shipping_date)
        THEN [o4 EXCEPT !.tracking.shipping_date = DateStr(rec.shipping_date)] ELSE o4

\* UpdateConfidence as it would be if the incoming confidence always replaced
\* the stored one
UpdateConfidence_Always(o, rec) ==
    LET new_confidence == Get(rec.confidence, Get(rec.parsed_confidence, 0))
    IN  [o EXCEPT !.parsed_confidence = new_confidence,
                  !.needs_review = new_confidence < ReviewThreshold]

\* UpdateConfidence as it would be if a raised confidence left needs_review as it was
UpdateConfidence_StaleFlag(o, rec) ==
    LET new_confidence == Get(rec.confidence, Get(rec.parsed_confidence, 0))
    IN  IF new_confidence > o.parsed_confidence
        THEN [o EXCEPT !.parsed_confidence = new_confidence]
        ELSE o

\* update_order_from_email: the "Update confidence score" block
UpdateConfidence(o, rec) ==
    LET new_confidence == Get(rec.confidence, Get(rec.parsed_confidence, 0))
    IN  IF new_confidence > o.parsed_confidence
        THEN [o EXCEPT !.parsed_confidence = new_confidence,
                       !.needs_review = new_confidence < ReviewThreshold]
        ELSE o

\* OrderMerger.update_order_from_email, o the order as loaded from the table
update_order_from_email(o, rec) ==
    LET staged == CASE rec.email_type = "confirmation" -> MergeConfirmation(o, rec)
                    [] rec.email_type = "delivery" -> MergeDelivery(o, rec)
                    [] rec.email_type = "shipping" -> MergeShipping(o, rec)
                    [] OTHER -> o
    IN  Order_save(UpdateConfidence(staged, rec))

\* create_new_order_from_email: order_date or shipping_date or delivery_date
FallbackOrderDate(rec) ==
    IF Truthy(rec.order_date) THEN rec.order_date
    ELSE IF Truthy(rec.shipping_date) THEN rec.shipping_date
    ELSE rec.delivery_date

\* create_new_order_from_email: the tracking blob stored with a new order
InitialTracking(rec) ==
    IF rec.email_type \in {"shipping", "delivery"}
    THEN [tracking_number |-> rec.tracking_number,
          logistics_partner |-> rec.logistics_partner,
          tracking_url |-> rec.tracking_url,
          shipping_date |->
              IF Truthy(rec.shipping_date) THEN DateStr(rec.shipping_date) ELSE "",
          estimated_delivery |->
              IF Truthy(rec.estimated_delivery) THEN DateStr(rec.estimated_delivery) ELSE ""]
    ELSE NoTracking

\* create_new_order_from_email: the Order(...) constructor call, before save
NewOrder(user, rec) ==
    LET conf == Get(rec.parsed_confidence, Get(rec.confidence, 0))
    IN  [user |-> user,
         merchant_name |-> rec.merchant_name,
         order_id |-> rec.order_id,
         order_date |-> FallbackOrderDate(rec),
         delivery_date |->
             IF Truthy(rec.delivery_date) THEN rec.delivery_date
             ELSE GetNone(rec.estimated_delivery),
         return_window_days |-> Get(rec.return_window_days, DefaultReturnWindow),
         return_deadline |-> None,
         parsed_confidence |-> conf,
         needs_review |-> conf < ReviewThreshold,
         total_amount |-> Get(rec.amount, 0),
         tracking |-> InitialTracking(rec),
         products |-> <<>>]

\* create_new_order_from_email: the single product used when the record lists none
FallbackProducts(rec) ==
    <<[name |-> "Unknown Product", size |-> "", quantity |-> 1,
       price |-> Get(rec.amount, 0)]>>

\* Position in acc of the entry with key name|size, 0 when there is none
KeyIndex(acc, d) ==
    LET hits == {i \in 1..Len(acc) : acc[i].name = d.name /\ acc[i].size = d.size}
    IN  IF hits = {} THEN 0 ELSE CHOOSE i \in hits : TRUE

\* create_new_order_from_email: "Final deduplication check", the unique_products
\* dict in insertion order (quantities summed, the higher price kept)
RECURSIVE UniqueProducts(_, _)
UniqueProducts(products, acc) ==
    IF products = <<>> THEN acc
    ELSE LET d == Head(products)
             k == KeyIndex(acc, d)
         IN  UniqueProducts(
                 Tail(products),
                 IF k # 0
                 THEN [acc EXCEPT ![k].quantity = @ + d.quantity,
                                  ![k].price = IF d.price > @ THEN d.price ELSE @]
                 ELSE Append(acc, d))

\* create_new_order_from_email: "Create OrderProduct for each unique product"
RECURSIVE CreateOrderProducts(_, _)
CreateOrderProducts(o, unique) ==
    IF unique = <<>> THEN o
    ELSE LET d == Head(unique)
             i == FirstByNameSize(o, d.name, d.size)
             o1 == IF i # 0
                   THEN SaveProduct(o, i,
                            [o.products[i] EXCEPT
                                !.product_quantity = @ + d.quantity,
                                !.product_price = IF d.price > @ THEN d.price ELSE @])
                   ELSE CreateProduct(o, NewProduct(d, o.return_deadline))
         IN  CreateOrderProducts(o1, Tail(unique))

\* The outcome of a call: the table afterwards, what happened, and the row concerned
Outcome(os, what, row) == [orders |-> os, outcome |-> what, target |-> row]

\* product_price = DecimalField(max_digits=10, decimal_places=2): the highest
\* price an OrderProduct row stores, in whole units (total_amount has
\* max_digits=12, which no amount of the model exceeds)
MaxProductPrice == 99999999

\* OrderMerger.create_new_order_from_email.  The INSERT of a row whose
\* total_amount is None violates the column's NOT NULL constraint and raises
\* before anything is stored.  The INSERT of an OrderProduct whose price has
\* more digits than the column raises after the Order row, and the products
\* before it, have been stored: nothing wraps the writes in a transaction.
create_new_order_from_email(os, user, rec) ==
    IF rec.merchant_name = "" THEN Outcome(os, "abstained", 0)
    ELSE IF ~Truthy(FallbackOrderDate(rec)) THEN Outcome(os, "abstained", 0)
    ELSE IF NewOrder(user, rec).total_amount = None THEN Outcome(os, "error", 0)
    ELSE LET saved == Order_save(NewOrder(user, rec))
             products == IF rec.products = <<>> THEN FallbackProducts(rec)
                         ELSE rec.products
             unique == UniqueProducts(products, <<>>)
             refused == {k \in 1..Len(unique) : unique[k].price > MaxProductPrice}
         IN  IF refused = {}
             THEN Outcome(Append(os, CreateOrderProducts(saved, unique)),
                          "created", Len(os) + 1)
             ELSE Outcome(Append(os, CreateOrderProducts(
                                         saved, SubSeq(unique, 1, Least(refused) - 1))),
                          "error", 0)

\* Matches as it would be without the tracking-number alternative
Matches_OrderIdOnly(o, user, rec) ==
    /\ o.user = user
    /\ Lower(o.merchant_name) = Lower(rec.merchant_name)
    /\ o.order_id = rec.order_id

\* Matches as it would be with a case-sensitive merchant comparison
Matches_CaseSensitive(o, user, rec) ==
    /\ o.user = user
    /\ o.merchant_name = rec.merchant_name
    /\ \/ o.order_id = rec.order_id
       \/ o.tracking.tracking_number = rec.order_id

\* create_or_update_order: the filter of the match query
Matches(o, user, rec) ==
    /\ o.user = user
    /\ Lower(o.merchant_name) = Lower(rec.merchant_name)
    /\ \/ o.order_id = rec.order_id
       \/ o.tracking.tracking_number = rec.order_id

\* create_or_update_order: .first() under Meta.ordering = ['-created_at'], the
\* most recently created matching row; 0 when there is none
ExistingOrder(os, user, rec) ==
    LET hits == {i \in 1..Len(os) : Matches(os[i], user, rec)}
    IN  IF hits = {} THEN 0 ELSE CHOOSE i \in hits : \A j \in hits : j <= i

\* MergerResult as it would be if it abstained only when both the order id and
\* the merchant name are missing
MergerResult_AbstainsWhenBothMissing(os, user, rec) ==
    IF rec.order_id = "" /\ rec.merchant_name = "" THEN Outcome(os, "abstained", 0)
    ELSE LET i == ExistingOrder(os, user, rec)
         IN  IF i # 0
             THEN Outcome([os EXCEPT ![i] = update_order_from_email(os[i], rec)],
                          "updated", i)
             ELSE create_new_order_from_email(os, user, rec)

\* OrderMerger.create_or_update_order as a function of the table and its arguments
MergerResult(os, user, rec) ==
    IF rec.order_id = "" \/ rec.merchant_name = "" THEN Outcome(os, "abstained", 0)
    ELSE LET i == ExistingOrder(os, user, rec)
         IN  IF i # 0
             THEN Outcome([os EXCEPT ![i] = update_order_from_email(os[i], rec)],
                          "updated", i)
             ELSE create_new_order_from_email(os, user, rec)

\* AfterMatch as it would be if the match query and the write were one atomic step
AfterMatch_MatchesAgain(os, req) == MergerResult(os, req.user, req.rec)

\* create_or_update_order from `if existing_order:` on, req holding the
\* arguments of the call and what the match query returned: the position of
\* the row (0 for none) and the Order object it loaded.  The line items are
\* read from the table when the update runs.
AfterMatch(os, req) ==
    IF req.existing # 0
    THEN Outcome([os EXCEPT ![req.existing] =
                      update_order_from_email(
                          [req.loaded[1] EXCEPT !.products = os[req.existing].products],
                          req.rec)],
                 "updated", req.existing)
    ELSE create_new_order_from_email(os, req.user, req.rec)

(***************************************************************************)
(* parsed_data, the dict an extractor returns                              *)
(***************************************************************************)

\* A parsed_data dict with no field populated
EmptyRecord ==
    [merchant_name |-> "", order_id |-> "", email_type |-> "unknown",
     order_date |-> None, shipping_date |-> None, delivery_date |-> None,
     estimated_delivery |-> None, return_deadline |-> None,
     amount |-> Absent, return_window_days |-> Absent,
     confidence |-> Absent, parsed_confidence |-> Absent,
     tracking_number |-> "", logistics_partner |-> "", tracking_url |-> "",
     products |-> <<>>]

Product(name, size, quantity, price) ==
    [name |-> name, size |-> size, quantity |-> quantity, price |-> price]

(***************************************************************************)
(* parser/html_parsers/email_type_detector.py                              *)
(*                                                                         *)
(* A document is the set of elements soup.find can locate (named by their  *)
(* id) and the set of dictionary phrases that occur in its lower-cased     *)
(* text.                                                                   *)
(***************************************************************************)

\* EmailTypeDetector.EMAIL_TYPE_PATTERNS, in dict order
EMAIL_TYPE_PATTERNS ==
    <<[email_type |-> "confirmation",
       patterns |-> {"order confirmed", "order placed", "order received",
                     "payment successful", "order confirmation",
                     "thank you for your order", "order details", "order summary"}],
      [email_type |-> "shipping",
       patterns |-> {"shipped", "dispatched", "on the way", "in transit",
                     "tracking", "shipment", "out for delivery", "track your order"}],
      [email_type |-> "delivery",
       patterns |-> {"delivered", "delivery successful", "package delivered",
                     "order delivered", "received your order",
                     "delivered successfully", "available till", "return window",
                     "return policy"}]>>

\* The text-pattern loop of detect_email_type from the n-th category on
RECURSIVE MatchPatterns(_, _)
MatchPatterns(text, n) ==
    IF n > Len(EMAIL_TYPE_PATTERNS) THEN "unknown"
    ELSE IF EMAIL_TYPE_PATTERNS[n].patterns \cap text # {}
         THEN EMAIL_TYPE_PATTERNS[n].email_type
         ELSE MatchPatterns(text, n + 1)

\* detect_email_type as it would be if the text patterns were tried before the
\* element ids
detect_email_type_TextFirst(soup) ==
    IF MatchPatterns(soup.text, 1) # "unknown" THEN MatchPatterns(soup.text, 1)
    ELSE IF "AvailableTillDateId" \in soup.ids THEN "delivery"
    ELSE IF "OrderDeliveredDateId" \in soup.ids THEN "delivery"
    ELSE IF "CourierDisplayNameId" \in soup.ids THEN "shipping"
    ELSE IF "Tracking" \in soup.ids THEN "shipping"
    ELSE IF "OrderId" \in soup.ids /\ "shipped" \in soup.text THEN "shipping"
    ELSE IF "OrderId" \in soup.ids THEN "confirmation"
    ELSE IF "PacketCreationTimeId" \in soup.ids THEN "confirmation"
    ELSE IF "CustomerPromiseTimeId" \in soup.ids THEN "confirmation"
    ELSE "unknown"

\* EmailTypeDetector.detect_email_type ("Tracking" is a span whose id matches
\* .*Tracking.*, "OrderId" the li of that id)
detect_email_type(soup) ==
    IF "AvailableTillDateId" \in soup.ids THEN "delivery"
    ELSE IF "OrderDeliveredDateId" \in soup.ids THEN "delivery"
    ELSE IF "CourierDisplayNameId" \in soup.ids THEN "shipping"
    ELSE IF "Tracking" \in soup.ids THEN "shipping"
    ELSE IF "OrderId" \in soup.ids /\ "shipped" \in soup.text THEN "shipping"
    ELSE IF "OrderId" \in soup.ids THEN "confirmation"
    ELSE IF "PacketCreationTimeId" \in soup.ids THEN "confirmation"
    ELSE IF "CustomerPromiseTimeId" \in soup.ids THEN "confirmation"
    ELSE MatchPatterns(soup.text, 1)

(***************************************************************************)
(* parser/html_parsers/hm.py: HMHTMLParser.extract_products                *)
(*                                                                         *)
(* Prices of this section are hundredths of a currency unit (the code      *)
(* quantizes to 0.01).  A document is, for each of the five methods, the   *)
(* candidates the method comes across in document order: the product name  *)
(* it picks ("" when it finds none), the size and the price the price      *)
(* pattern matches (None when it does not match).                          *)
(***************************************************************************)

\* `price < 50`: the lowest price that is kept, in hundredths
MinPrice == 5000

\* `price > 5000`: the highest price that is kept, in hundredths
MaxPrice == 500000

\* One currency unit, the tolerance of is_duplicate, in hundredths
OneUnit == 100

\* InBand as it would be without the upper limit
InBand_NoUpperLimit(price) == ~(price < MinPrice)

\* not (price > 5000 or price < 50)
InBand(price) == ~(price > MaxPrice \/ price < MinPrice)

Abs(x) == IF x < 0 THEN 0 - x ELSE x

\* is_duplicate(name, price) against the products accepted so far
is_duplicate(products, name, price) ==
    \E n \in 1..Len(products) :
        products[n].name = name /\ Abs(products[n].price - price) < OneUnit

\* is_valid_product_name: names that are financial summary terms are refused
is_valid_product_name(name) == name # "" /\ name \notin {"Shipping", "Tax"}

\* The dict appended to products
HMProduct(name, size, price) ==
    [name |-> name, size |-> size, quantity |-> 1, price |-> price]

\* Method 1, the loop over product_links_found
RECURSIVE LinkMethod(_, _)
LinkMethod(found, products) ==
    IF found = <<>> THEN products
    ELSE LET c == Head(found)
             price == IF c.price = None THEN 0 ELSE c.price
             products1 ==
                 IF c.name = "" THEN products
                 ELSE IF ~InBand(price) THEN products
                 ELSE IF is_duplicate(products, c.name, price) THEN products
                 ELSE IF price > 0 /\ is_valid_product_name(c.name)
                      THEN Append(products, HMProduct(c.name, c.size, price))
                      ELSE products
         IN  LinkMethod(Tail(found), products1)

\* Methods 2 to 5, the loop over the rows, divs or price matches; methods 4 and
\* 5 store no size
RECURSIVE ScanMethod(_, _, _)
ScanMethod(found, products, sized) ==
    IF found = <<>> THEN products
    ELSE LET c == Head(found)
             products1 ==
                 IF c.price = None THEN products
                 ELSE IF ~InBand(c.price) THEN products
                 ELSE IF ~is_valid_product_name(c.name) THEN products
                 ELSE IF is_duplicate(products, c.name, c.price) THEN products
                 ELSE Append(products,
                             HMProduct(c.name, IF sized THEN c.size ELSE "", c.price))
         IN  ScanMethod(Tail(found), products1, sized)

\* Position in deduplicated of the entry with the same name and a price within
\* one unit, 0 when there is none
SimilarIndex(deduplicated, p) ==
    LET hits == {n \in 1..Len(deduplicated) :
                    /\ deduplicated[n].name = p.name
                    /\ Abs(deduplicated[n].price - p.price) < OneUnit}
    IN  IF hits = {} THEN 0 ELSE CHOOSE n \in hits : \A k \in hits : n <= k

\* "DEDUPLICATE": the deduplicated dict in insertion order
RECURSIVE Deduplicate(_, _)
Deduplicate(products, deduplicated) ==
    IF products = <<>> THEN deduplicated
    ELSE LET p == Head(products)
             k == SimilarIndex(deduplicated, p)
         IN  Deduplicate(
                 Tail(products),
                 IF k # 0
                 THEN [deduplicated EXCEPT
                         ![k].quantity = @ + p.quantity,
                         ![k].price = IF p.price > @ THEN p.price ELSE @]
                 ELSE Append(deduplicated, p))

\* What extract_products returns for the accepted products
FinalProducts(products) ==
    IF Deduplicate(products, <<>>) = <<>>
    THEN <<HMProduct("H&M Product", "", 0)>>
    ELSE Deduplicate(products, <<>>)

\* extract_products as it would be if Method 3 ran whatever the earlier methods found
extract_products_TablesAlways(soup) ==
    LET p1 == LinkMethod(soup.links, <<>>)
        p2 == IF Len(p1) = 0 THEN ScanMethod(soup.rows, p1, TRUE) ELSE p1
        p3 == ScanMethod(soup.tables, p2, TRUE)
        p4 == IF Len(p3) = 0 THEN ScanMethod(soup.divs, p3, FALSE) ELSE p3
        p5 == IF Len(p4) = 0 THEN ScanMethod(soup.text, p4, FALSE) ELSE p4
    IN  [accepted |-> p5, products |-> FinalProducts(p5)]

\* HMHTMLParser.extract_products: the products the methods accepted and the
\* list returned
extract_products(soup) ==
    LET p1 == LinkMethod(soup.links, <<>>)
        p2 == IF Len(p1) = 0 THEN ScanMethod(soup.rows, p1, TRUE) ELSE p1
        p3 == IF Len(p2) = 0 THEN ScanMethod(soup.tables, p2, TRUE) ELSE p2
        p4 == IF Len(p3) = 0 THEN ScanMethod(soup.divs, p3, FALSE) ELSE p3
        p5 == IF Len(p4) = 0 THEN ScanMethod(soup.text, p4, FALSE) ELSE p4
    IN  [accepted |-> p5, products |-> FinalProducts(p5)]

(***************************************************************************)
(* parser/services.py and the parse methods of parser/html_parsers         *)
(*                                                                         *)
(* An HTML body is a document of the classifier together with `fields`,    *)
(* the values the extract_* methods of the merchant's parser find in it    *)
(* (None or "" for a value that is not found), and `order_value`, the sum  *)
(* H&M prints under that label.  A text body is the values the regular     *)
(* expressions of the fallback find.  raw_html is <<>> for a message       *)
(* without an HTML body and <<document>> otherwise.                        *)
(***************************************************************************)

\* EmailParser._extract_merchant: None ("") when no pattern matches the address
_extract_merchant(from_email) ==
    CASE from_email = "orders@myntra.com" -> "Myntra"
      [] from_email = "noreply@hm.com" -> "H&M"
      [] from_email = "noreply@delivery.hm.com" -> "H&M"
      [] from_email = "auto@amazon.in" -> "Amazon"
      [] OTHER -> ""

\* The keys of EmailParser.html_parsers
html_parsers == {"Myntra", "H&M"}

\* MyntraHTMLParser.parse_confirmation_email / parse_shipping_email /
\* parse_delivery_email (the delivery dict has no amount key)
MyntraParse(soup, email_type) ==
    LET f == soup.fields
    IN  CASE email_type = "confirmation" ->
                [EmptyRecord EXCEPT
                    !.merchant_name = "Myntra", !.order_id = f.order_id,
                    !.order_date = f.order_date, !.delivery_date = f.delivery_date,
                    !.amount = f.amount, !.products = f.products,
                    !.email_type = "confirmation", !.confidence = 90]
          [] email_type = "shipping" ->
                [EmptyRecord EXCEPT
                    !.merchant_name = "Myntra", !.order_id = f.order_id,
                    !.tracking_number = f.tracking_number,
                    !.tracking_url = f.tracking_url,
                    !.shipping_date = f.shipping_date,
                    !.estimated_delivery = f.estimated_delivery,
                    !.logistics_partner = f.logistics_partner,
                    !.amount = f.amount, !.products = f.products,
                    !.email_type = "shipping", !.confidence = 80]
          [] OTHER ->
                [EmptyRecord EXCEPT
                    !.merchant_name = "Myntra", !.order_id = f.order_id,
                    !.delivery_date = f.delivery_date,
                    !.return_deadline = f.return_deadline,
                    !.products = f.products,
                    !.email_type = "delivery", !.confidence = 90]

\* HMHTMLParser.distribute_amount_to_products
distribute_amount_to_products(products, total_amount) ==
    IF products = <<>> \/ total_amount = 0 THEN products
    ELSE [n \in 1..Len(products) |->
             [products[n] EXCEPT !.price = total_amount \div Len(products)]]

\* HMHTMLParser.parse_delivery_email: the sum of the prices that are above zero
RECURSIVE SumPositivePrices(_)
SumPositivePrices(products) ==
    IF products = <<>> THEN 0
    ELSE (IF Head(products).price > 0 THEN Head(products).price ELSE 0)
         + SumPositivePrices(Tail(products))

\* HMHTMLParser.parse_confirmation_email / parse_shipping_email /
\* parse_delivery_email (a shipping email is parsed as a delivery email)
HMParse(soup, email_type) ==
    LET f == soup.fields
        unpriced == \E n \in 1..Len(f.products) : ~(f.products[n].price > 0)
    IN  IF email_type = "confirmation"
        THEN [EmptyRecord EXCEPT
                !.merchant_name = "H&M", !.order_id = f.order_id,
                !.order_date = f.order_date, !.amount = f.amount,
                !.products = IF unpriced /\ Truthy(soup.order_value)
                             THEN distribute_amount_to_products(f.products, soup.order_value)
                             ELSE f.products,
                !.email_type = "confirmation", !.confidence = 95]
        ELSE [EmptyRecord EXCEPT
                !.merchant_name = "H&M", !.order_id = f.order_id,
                !.order_date = f.order_date,
                !.return_deadline = f.return_deadline,
                !.amount = SumPositivePrices(f.products),
                !.products = f.products,
                !.tracking_number = f.tracking_number,
                !.tracking_url = f.tracking_url,
                !.email_type = "delivery", !.confidence = 95]

\* BaseHTMLParser.calculate_confidence, in hundredths (no parse method calls it)
calculate_confidence(result) ==
    LET confidence ==
            (IF result.merchant_name # "" THEN 10 ELSE 0)
            + (IF result.order_id # "" THEN 30 ELSE 0)
            + (IF Truthy(result.delivery_date) THEN 20 ELSE 0)
            + (IF Truthy(result.return_deadline) THEN 20 ELSE 0)
            + (IF result.products # <<>> THEN 10 ELSE 0)
            + (IF Truthy(result.amount) THEN 10 ELSE 0)
    IN  IF confidence < 100 THEN confidence ELSE 100

\* BaseHTMLParser.parse_generic_email
parse_generic_email(merchant, soup) ==
    LET f == soup.fields
    IN  [EmptyRecord EXCEPT
            !.merchant_name = merchant, !.order_id = f.order_id,
            !.order_date = f.order_date, !.delivery_date = f.delivery_date,
            !.return_deadline = f.return_deadline,
            !.products = f.products, !.amount = f.amount,
            !.email_type = "unknown", !.confidence = 50]

\* BaseHTMLParser.parse of the merchant's parser
HTMLParse(merchant, soup) ==
    LET email_type == detect_email_type(soup)
    IN  IF email_type = "unknown" THEN parse_generic_email(merchant, soup)
        ELSE IF merchant = "Myntra" THEN MyntraParse(soup, email_type)
        ELSE HMParse(soup, email_type)

\* EmailParser._calculate_confidence, in hundredths
_calculate_confidence(parsed_data) ==
    (IF parsed_data.merchant_name # "" THEN 20 ELSE 0)
    + (IF parsed_data.order_id # "" THEN 30 ELSE 0)
    + (IF Truthy(parsed_data.amount) THEN 20 ELSE 0)
    + (IF Truthy(parsed_data.delivery_date) THEN 20 ELSE 0)
    + (IF Truthy(parsed_data.order_date) THEN 10 ELSE 0)

\* EmailParser._parse_text_fallback: no email_type and no products key; the
\* MerchantRule table is empty, so return_window_days is 30
_parse_text_fallback(raw_text, from_email) ==
    LET found == [EmptyRecord EXCEPT
                    !.merchant_name = _extract_merchant(from_email),
                    !.order_id = raw_text.order_id,
                    !.order_date = raw_text.order_date,
                    !.delivery_date = raw_text.delivery_date,
                    !.amount = IF Truthy(raw_text.amount) THEN raw_text.amount ELSE None,
                    !.return_window_days = DefaultReturnWindow]
    IN  [found EXCEPT !.parsed_confidence = _calculate_confidence(found)]

\* parse_email as it would be if the HTML result were returned whatever its confidence
parse_email_NoThreshold(raw_text, raw_html, from_email) ==
    LET merchant == _extract_merchant(from_email)
    IN  IF raw_html # <<>> /\ merchant \in html_parsers
        THEN HTMLParse(merchant, raw_html[1])
        ELSE _parse_text_fallback(raw_text, from_email)

\* html_result['confidence'] > 0.7, in hundredths
HtmlThreshold == 70

\* EmailParser.parse_email
parse_email(raw_text, raw_html, from_email) ==
    LET merchant == _extract_merchant(from_email)
    IN  IF raw_html # <<>> /\ merchant \in html_parsers
           /\ HTMLParse(merchant, raw_html[1]).confidence > HtmlThreshold
        THEN HTMLParse(merchant, raw_html[1])
        ELSE _parse_text_fallback(raw_text, from_email)

(***************************************************************************)
(* parser/services.py: the pattern lists of the regex fallback             *)
(*                                                                         *)
(* A text is, for each pattern list, what re.search with each pattern of   *)
(* the list finds in it, in list order: for the order id the captured      *)
(* string ("" when the pattern does not match), for the dates and the      *)
(* amount the value the captured string is converted to (None when the     *)
(* pattern does not match, Unparsable when dateparser.parse returns None   *)
(* or Decimal raises).                                                     *)
(***************************************************************************)

\* A captured string that dateparser.parse or Decimal cannot convert
Unparsable == -3

\* The pattern matched and its capture was converted
HasValue(v) == v \notin {None, Unparsable}

\* EmailParser._extract_order_id: the first pattern that matches returns
RECURSIVE _extract_order_id(_)
_extract_order_id(matches) ==
    IF matches = <<>> THEN ""
    ELSE IF Head(matches) # "" THEN Head(matches)
    ELSE _extract_order_id(Tail(matches))

\* EmailParser._extract_dates: the loop goes through every pattern and stores
\* each date it can convert, under delivery_date for the pattern that starts
\* with Delivered and under order_date for the others
RECURSIVE _extract_dates(_, _, _)
_extract_dates(matches, n, dates) ==
    IF n > Len(matches) THEN dates
    ELSE _extract_dates(
             matches, n + 1,
             IF ~HasValue(matches[n]) THEN dates
             ELSE IF n = 1 THEN [dates EXCEPT !.delivery_date = matches[n]]
             ELSE [dates EXCEPT !.order_date = matches[n]])

\* EmailParser._extract_amount: the first pattern whose capture Decimal
\* accepts returns
RECURSIVE _extract_amount(_)
_extract_amount(matches) ==
    IF matches = <<>> THEN None
    ELSE IF HasValue(Head(matches)) THEN Head(matches)
    ELSE _extract_amount(Tail(matches))

\* Steps 2 to 4 of _parse_text_fallback: what the three methods find in a text
TextFields(text) ==
    LET dates == _extract_dates(text.dates, 1, [order_date |-> None, delivery_date |-> None])
    IN  [order_id |-> _extract_order_id(text.order_id),
         order_date |-> dates.order_date,
         delivery_date |-> dates.delivery_date,
         amount |-> _extract_amount(text.amount)]

(***************************************************************************)
(* parser/api.py: sync_gmail                                               *)
(***************************************************************************)

\* ExistingRawEmail as it would be if the lookup never found a stored message
ExistingRawEmail_Never(table, user, message_id) == 0

\* RawEmail.objects.filter(user=user, message_id=..).first(); 0 when there is none
ExistingRawEmail(table, user, message_id) ==
    LET hits == {i \in 1..Len(table) :
                    table[i].user = user /\ table[i].message_id = message_id}
    IN  IF hits = {} THEN 0 ELSE Least(hits)

\* "Step 2.5": a delivery record without a delivery date takes the day the
\* message was received
FixDeliveryDate(parsed_data, raw_email) ==
    IF parsed_data.email_type = "delivery" /\ ~Truthy(parsed_data.delivery_date)
       /\ Truthy(raw_email.received_at)
    THEN [parsed_data EXCEPT !.delivery_date = raw_email.received_at]
    ELSE parsed_data

\* What processing one message leaves behind and reports
Processed(os, table, l, status) ==
    [orders |-> os, raw_emails |-> table, last |-> l, status |-> status]

\* _process_single_email as it would be without its try/except: an exception
\* leaves the method instead of becoming the message's error outcome
_process_single_email_Uncaught(os, table, l, user, email_data) ==
    LET i == ExistingRawEmail(table, user, email_data.id)
        taken == \E j \in 1..Len(table) : table[j].message_id = email_data.id
        created == [user |-> user, message_id |-> email_data.id,
                    received_at |-> email_data.received_at]
        raw_email == IF i # 0 THEN table[i] ELSE created
        table1 == IF i # 0 THEN table ELSE Append(table, created)
        parsed_data == FixDeliveryDate(
                           parse_email(email_data.raw_text, email_data.raw_html,
                                       email_data.from_email),
                           raw_email)
        r == MergerResult(os, user, parsed_data)
        l1 == [user |-> user, rec |-> parsed_data, outcome |-> r.outcome,
               target |-> r.target, item |-> 0]
    IN  IF i = 0 /\ taken THEN Processed(os, table, l, "raised")
        ELSE Processed(r.orders, table1, l1,
                       CASE r.outcome = "error" -> "raised"
                         [] r.outcome = "abstained" -> "failed"
                         [] OTHER -> "success")

\* ParserViewSet._process_single_email: the tables afterwards and the status
\* of the outcome.  message_id is unique over the whole RawEmail table, so the
\* INSERT raises when another user's row has it.
_process_single_email(os, table, l, user, email_data) ==
    LET i == ExistingRawEmail(table, user, email_data.id)
        taken == \E j \in 1..Len(table) : table[j].message_id = email_data.id
        created == [user |-> user, message_id |-> email_data.id,
                    received_at |-> email_data.received_at]
        raw_email == IF i # 0 THEN table[i] ELSE created
        table1 == IF i # 0 THEN table ELSE Append(table, created)
        parsed_data == FixDeliveryDate(
                           parse_email(email_data.raw_text, email_data.raw_html,
                                       email_data.from_email),
                           raw_email)
        r == MergerResult(os, user, parsed_data)
        l1 == [user |-> user, rec |-> parsed_data, outcome |-> r.outcome,
               target |-> r.target, item |-> 0]
    IN  IF i = 0 /\ taken THEN Processed(os, table, l, "error")
        ELSE Processed(r.orders, table1, l1,
                       CASE r.outcome = "error" -> "error"
                         [] r.outcome = "abstained" -> "failed"
                         [] OTHER -> "success")

(***************************************************************************)
(* Inputs: the parsed records the extractors hand to the merger             *)
(***************************************************************************)

\* The most orders the table holds
MaxOrders == 2

\* Product lists of the merge records (the last is the placeholder item the
\* H&M cascade returns when it finds nothing)
ProductLists ==
    {<<>>,
     <<Product("Shirt", "M", 1, 500), Product("Jeans", "", 1, 450)>>,
     <<Product("H&M Product", "", 1, 0)>>}

\* HMHTMLParser / MyntraHTMLParser .parse_confirmation_email
ConfirmationRecords ==
    {[EmptyRecord EXCEPT
        !.merchant_name = "Myntra", !.order_id = "OD1",
        !.email_type = "confirmation",
        !.order_date = 1, !.amount = a, !.products = ps, !.confidence = 90] :
     a \in {None, 1200}, ps \in ProductLists}

\* MyntraHTMLParser.parse_shipping_email
ShippingRecords ==
    {[EmptyRecord EXCEPT
        !.merchant_name = "Myntra", !.order_id = "OD1",
        !.email_type = "shipping",
        !.shipping_date = 2, !.estimated_delivery = ed,
        !.amount = 950, !.confidence = 80] :
     ed \in {None, 4}}

\* HMHTMLParser / MyntraHTMLParser .parse_delivery_email (H&M states an amount,
\* the sum of the item prices; Myntra has no amount key)
DeliveryRecords ==
    {[EmptyRecord EXCEPT
        !.merchant_name = "Myntra", !.order_id = "OD1",
        !.email_type = "delivery",
        !.delivery_date = dd, !.return_deadline = rd, !.amount = a,
        !.products = <<Product("Shirt", "M", 1, 500), Product("Jeans", "", 1, 450)>>,
        !.confidence = 90] :
     dd \in {None, 3, 5}, rd \in {None, 9}, a \in {Absent, 950}}

\* EmailParser._parse_text_fallback: no email_type, parsed_confidence instead of
\* confidence, return_window_days from the MerchantRule table
FallbackRecords ==
    {[EmptyRecord EXCEPT
        !.merchant_name = "Myntra", !.order_id = "OD1",
        !.order_date = 1, !.delivery_date = dd, !.amount = 950,
        !.return_window_days = w, !.parsed_confidence = c] :
     dd \in {None, 3}, w \in {0, 7}, c \in {50, 70}}

MergeRecords ==
    ConfirmationRecords \cup ShippingRecords \cup DeliveryRecords \cup FallbackRecords

\* Shipping records of two users that label an order by the merchant's order id
\* or by the carrier's tracking number, the merchant name in either spelling
IdentityRecords ==
    {[EmptyRecord EXCEPT
        !.merchant_name = m, !.order_id = id, !.email_type = "shipping",
        !.shipping_date = 2, !.tracking_number = tn,
        !.amount = 950, !.confidence = 80] :
     m \in {"Myntra", "MYNTRA"}, id \in {"OD1", "TRK9"}, tn \in {"", "TRK9"}}

\* Records with the merchant name, the order id, the dates or the amount missing
IncompleteRecords ==
    {[EmptyRecord EXCEPT
        !.merchant_name = m, !.order_id = id, !.email_type = "shipping",
        !.order_date = d[1], !.shipping_date = d[2], !.delivery_date = d[3],
        !.amount = a, !.confidence = 80] :
     m \in {"", "Myntra"}, id \in {"", "OD1"},
     d \in {<<None, None, None>>, <<1, None, None>>, <<None, 2, 3>>, <<None, None, 3>>},
     a \in {None, 950}}

\* Product lists that repeat a product, list it at a lower price or list one
\* name in two sizes
ItemLists ==
    {<<>>,
     <<Product("Shirt", "M", 1, 500), Product("Jeans", "", 1, 450)>>,
     <<Product("Shirt", "M", 1, 400)>>,
     <<Product("Shirt", "M", 1, 500), Product("Shirt", "M", 1, 600)>>,
     <<Product("Shirt", "L", 1, 550), Product("Shirt", "M", 1, 500)>>,
     <<Product("H&M Product", "", 1, 0)>>}

\* Records of every stage for one order
ItemRecords ==
    {[EmptyRecord EXCEPT
        !.merchant_name = "Myntra", !.order_id = "OD1", !.email_type = "confirmation",
        !.order_date = 1, !.amount = 1200, !.products = ps, !.confidence = 90] :
     ps \in ItemLists}
    \cup
    {[EmptyRecord EXCEPT
        !.merchant_name = "Myntra", !.order_id = "OD1", !.email_type = "delivery",
        !.delivery_date = 3,
        !.products = <<Product("Shirt", "M", 1, 500), Product("Jeans", "", 1, 450)>>,
        !.confidence = 90]}
    \cup
    {[EmptyRecord EXCEPT
        !.merchant_name = "Myntra", !.order_id = "OD1", !.email_type = "shipping",
        !.shipping_date = 2, !.tracking_number = "TRK9", !.confidence = 80]}
    \cup
    {[EmptyRecord EXCEPT
        !.merchant_name = "Myntra", !.order_id = "OD1",
        !.order_date = 1, !.amount = 950, !.return_window_days = 7,
        !.parsed_confidence = 50]}

\* The element ids detect_email_type looks for
MarkerIds ==
    {"AvailableTillDateId", "OrderDeliveredDateId", "CourierDisplayNameId",
     "Tracking", "OrderId", "PacketCreationTimeId", "CustomerPromiseTimeId"}

\* Dictionary phrases a text is made of, at least one of each category
TextPhrases == {"order confirmed", "shipped", "tracking", "delivered"}

\* The documents handed to detect_email_type
Documents == {[ids |-> i, text |-> t] : i \in SUBSET MarkerIds, t \in SUBSET TextPhrases}

Candidate(name, size, price) == [name |-> name, size |-> size, price |-> price]

\* What one method comes across: nothing, a product, the product twice at
\* prices half a unit apart, a product and one at exactly 5000.00, prices of
\* 49.50 and 5000.50, a shipping fee, a product without a price and a price
\* without a name
CandidateLists ==
    {<<>>,
     <<Candidate("Slim Shirt", "M", 79900)>>,
     <<Candidate("Slim Shirt", "M", 79900), Candidate("Slim Shirt", "M", 79950)>>,
     <<Candidate("Slim Shirt", "M", 79900), Candidate("Wide Jeans", "", 500000)>>,
     <<Candidate("Wide Jeans", "", 4950), Candidate("Wide Jeans", "", 500050)>>,
     <<Candidate("Shipping", "", 7500)>>,
     <<Candidate("Slim Shirt", "M", None), Candidate("", "", 79900)>>}

\* The H&M documents handed to extract_products
HMDocuments ==
    {[links |-> l, rows |-> r, tables |-> t, divs |-> d, text |-> x] :
        l \in CandidateLists, r \in CandidateLists, t \in CandidateLists,
        d \in CandidateLists, x \in CandidateLists}

\* Sender addresses: two merchants with an HTML parser, one without, and a
\* sender that is no merchant
FromAddresses ==
    {"orders@myntra.com", "noreply@delivery.hm.com", "auto@amazon.in", "friend@example.com"}

\* What the extract_* methods find in an HTML body: a priced order, nothing but
\* the order id, and the placeholder item of the H&M cascade
HtmlFields ==
    {[EmptyRecord EXCEPT !.order_id = "OD1", !.order_date = 1, !.amount = 1200,
                         !.products = <<Product("Shirt", "M", 1, 500)>>],
     [EmptyRecord EXCEPT !.order_id = "OD1", !.amount = None],
     [EmptyRecord EXCEPT !.order_id = "OD1", !.delivery_date = 3, !.amount = None,
                         !.products = <<Product("H&M Product", "", 1, 0)>>]}

\* HTML bodies of every stage and of no recognisable stage
HtmlBodies ==
    {[ids |-> i, text |-> t, fields |-> f, order_value |-> v] :
        i \in {{}, {"OrderId"}, {"OrderDeliveredDateId"}, {"CourierDisplayNameId"}},
        t \in {{}, {"shipped"}},
        f \in HtmlFields,
        v \in {None, 950}}

\* What the regular expressions of the fallback find in a text body
TextBodies ==
    {[order_id |-> "A1", order_date |-> 1, delivery_date |-> None, amount |-> 950],
     [order_id |-> "", order_date |-> None, delivery_date |-> None, amount |-> None]}

\* The arguments of parse_email
ParseArguments ==
    {[raw_text |-> x, raw_html |-> h, from_email |-> a] :
        x \in TextBodies,
        h \in {<<>>} \cup {<<b>> : b \in HtmlBodies},
        a \in FromAddresses}

\* The most messages one fetch retrieves (max_results)
MaxBatch == 2

\* A dict of GmailService.fetch_emails
EmailData(id, html, text) ==
    [id |-> id, from_email |-> "noreply@delivery.hm.com",
     raw_html |-> html, raw_text |-> text, received_at |-> 4]

NothingFound ==
    [order_id |-> "", order_date |-> None, delivery_date |-> None, amount |-> None]

\* Messages the Gmail query retrieves (all from H&M): a delivery email; a
\* confirmation email whose total is not found; a text-only message stating an
\* amount of 150,000,000; a text-only message in which nothing is found; and a
\* message of no recognisable stage that the regex fallback reads
SyncMessages ==
    {EmailData("g1",
               <<[ids |-> {"OrderDeliveredDateId"}, text |-> {"delivered"},
                  fields |-> [EmptyRecord EXCEPT
                                !.order_id = "HM7", !.amount = None,
                                !.products = <<Product("Shirt", "M", 1, 500)>>],
                  order_value |-> None]>>,
               NothingFound),
     EmailData("g2",
               <<[ids |-> {}, text |-> {"order confirmed"},
                  fields |-> [EmptyRecord EXCEPT
                                !.order_id = "HM7", !.order_date = 1, !.amount = None,
                                !.products = <<Product("H&M Product", "", 1, 0)>>],
                  order_value |-> None]>>,
               NothingFound),
     EmailData("g3", <<>>,
               [order_id |-> "HM8", order_date |-> 1, delivery_date |-> None,
                amount |-> 150000000]),
     EmailData("g4", <<>>, NothingFound),
     EmailData("g5",
               <<[ids |-> {}, text |-> {},
                  fields |-> [EmptyRecord EXCEPT !.order_id = "HM7", !.amount = None],
                  order_value |-> None]>>,
               [order_id |-> "HM7", order_date |-> 1, delivery_date |-> None,
                amount |-> 950])}

\* The lists fetch_emails can return
RECURSIVE BatchesOfLength(_)
BatchesOfLength(n) ==
    IF n = 0 THEN {<<>>}
    ELSE {Append(b, e) : b \in BatchesOfLength(n - 1), e \in SyncMessages}

Batches == UNION {BatchesOfLength(n) : n \in 0..MaxBatch}

\* The last day of a run
MaxDay == 6

\* Records that create an order with a return deadline of day 5 and add two
\* line items to it
ReturnRecords ==
    {[EmptyRecord EXCEPT
        !.merchant_name = "Myntra", !.order_id = "OD1",
        !.order_date = 1, !.delivery_date = 3, !.amount = 950,
        !.return_window_days = 2, !.parsed_confidence = 80],
     [EmptyRecord EXCEPT
        !.merchant_name = "Myntra", !.order_id = "OD1", !.email_type = "confirmation",
        !.order_date = 1, !.amount = 1200,
        !.products = <<Product("Shirt", "M", 1, 500), Product("Jeans", "", 1, 450)>>,
        !.confidence = 90]}

\* The request threads that serve calls at the same time
Workers == {"w1", "w2"}

\* A thread that is in no call
Idle == [pc |-> "idle", user |-> "", rec |-> EmptyRecord, existing |-> 0, loaded |-> <<>>]

\* Records of one order, the merchant name in either spelling, from each of
\* which an order can be created
RaceRecords ==
    {[EmptyRecord EXCEPT
        !.merchant_name = "Myntra", !.order_id = "OD1", !.email_type = "confirmation",
        !.order_date = 1, !.amount = 1200,
        !.products = <<Product("Shirt", "M", 1, 500)>>, !.confidence = 90],
     [EmptyRecord EXCEPT
        !.merchant_name = "MYNTRA", !.order_id = "OD1", !.email_type = "shipping",
        !.shipping_date = 2, !.tracking_number = "TRK9", !.confidence = 80]}

\* Texts in which one, several or none of the patterns of each list match
Texts ==
    {[order_id |-> i, dates |-> d, amount |-> a] :
        i \in {<<"", "", "", "", "">>, <<"OD1", "", "", "", "OD1">>,
               <<"ID", "A1", "", "", "ID">>, <<"", "", "B2", "", "">>},
        d \in {<<None, None, None, None>>, <<5, 1, None, None>>,
               <<None, 1, None, 2>>, <<5, Unparsable, 2, None>>,
               <<Unparsable, None, 2, 3>>, <<None, None, None, 3>>},
        a \in {<<None, None, None>>, <<950, None, None>>, <<899, None, 950>>,
               <<Unparsable, 899, 950>>, <<None, None, 950>>}}

\* Records of one order that state some, all or none of the tracking fields
TrackingRecords ==
    {[EmptyRecord EXCEPT
        !.merchant_name = "Myntra", !.order_id = "OD1", !.email_type = "shipping",
        !.tracking_number = tn, !.logistics_partner = lp, !.tracking_url = url,
        !.shipping_date = sd, !.estimated_delivery = ed, !.confidence = 80] :
     tn \in {"", "TRK9", "TRK7"}, lp \in {"", "Delhivery"},
     url \in {"", "https://t/9"}, sd \in {None, 2}, ed \in {None, 4}}
    \cup
    {[EmptyRecord EXCEPT
        !.merchant_name = "Myntra", !.order_id = "OD1", !.email_type = "delivery",
        !.delivery_date = 5, !.tracking_number = tn, !.tracking_url = url,
        !.confidence = 90] :
     tn \in {"", "TRK7"}, url \in {"", "https://t/7"}}
    \cup
    {[EmptyRecord EXCEPT
        !.merchant_name = "Myntra", !.order_id = "OD1", !.email_type = "confirmation",
        !.order_date = 1, !.amount = 1200,
        !.products = <<Product("Shirt", "M", 1, 500)>>, !.confidence = 90]}

Users == {"u1", "u2"}

(***************************************************************************)
(* The state machine                                                       *)
(***************************************************************************)

\* No parser function has been called
NoCall == [fn |-> "none", done |-> FALSE]

\* Empty tables, nothing retrieved
InitTables ==
    /\ orders = <<>>
    /\ last = [user |-> "", rec |-> EmptyRecord, outcome |-> "none", target |-> 0,
               item |-> 0]
    /\ today = 1
    /\ inbox = <<>>
    /\ results = <<>>
    /\ raw_emails = <<>>
    /\ requests = [w \in Workers |-> Idle]

Init ==
    /\ InitTables
    /\ call = NoCall

\* One call of OrderMerger.create_or_update_order(user, parsed_data)
create_or_update_order(user, rec) ==
    LET r == MergerResult(orders, user, rec)
    IN  /\ Len(r.orders) <= MaxOrders
        /\ orders' = r.orders
        /\ last' = [user |-> user, rec |-> rec,
                    outcome |-> r.outcome, target |-> r.target, item |-> 0]
        /\ UNCHANGED <<today, call, inbox, results, raw_emails, requests>>

Next == \E rec \in MergeRecords : create_or_update_order("u1", rec)

Spec == Init /\ [][Next]_vars

\* The match-or-create step under records that differ in who they belong to
NextMatch ==
    \/ \E user \in Users, rec \in IdentityRecords : create_or_update_order(user, rec)
    \/ \E rec \in IncompleteRecords : create_or_update_order("u1", rec)

SpecMatch == Init /\ [][NextMatch]_vars

\* Creations and merges under records that repeat and re-price line items
NextItems == \E rec \in ItemRecords : create_or_update_order("u1", rec)

SpecItems == Init /\ [][NextItems]_vars

\* Creations and merges under records that state tracking fields
NextTracking == \E rec \in TrackingRecords : create_or_update_order("u1", rec)

SpecTracking == Init /\ [][NextTracking]_vars

\* OrderProductViewSet.destroy of the j-th line item of the i-th order
destroy(i, j) ==
    /\ orders' = [orders EXCEPT ![i] = DeleteProduct(orders[i], j)]
    /\ last' = [user |-> orders[i].user, rec |-> EmptyRecord, outcome |-> "destroy",
                target |-> i, item |-> j]
    /\ UNCHANGED <<today, call, inbox, results, raw_emails, requests>>

\* Creations and merges that save line items, and deletions of line items
NextTotals ==
    \/ \E rec \in ItemRecords : create_or_update_order("u1", rec)
    \/ \E i \in 1..Len(orders) : \E j \in 1..Len(orders[i].products) : destroy(i, j)

SpecTotals == Init /\ [][NextTotals]_vars

\* detect_email_type applied to any document
InitDetect ==
    /\ InitTables
    /\ call \in {[fn |-> "detect_email_type", done |-> FALSE, arg |-> d, result |-> ""] :
                  d \in Documents}

\* self.type_detector.detect_email_type(soup)
DetectCall ==
    /\ call.fn = "detect_email_type"
    /\ ~call.done
    /\ call' = [call EXCEPT !.done = TRUE, !.result = detect_email_type(call.arg)]
    /\ UNCHANGED <<orders, last, today, inbox, results, raw_emails, requests>>

NextDetect == DetectCall

SpecDetect == InitDetect /\ [][NextDetect]_vars

\* extract_products applied to any H&M document
InitExtract ==
    /\ InitTables
    /\ call \in {[fn |-> "extract_products", done |-> FALSE, arg |-> d,
                   result |-> [accepted |-> <<>>, products |-> <<>>]] :
                  d \in HMDocuments}

\* self.extract_products(soup)
ExtractCall ==
    /\ call.fn = "extract_products"
    /\ ~call.done
    /\ call' = [call EXCEPT !.done = TRUE, !.result = extract_products(call.arg)]
    /\ UNCHANGED <<orders, last, today, inbox, results, raw_emails, requests>>

NextExtract == ExtractCall

SpecExtract == InitExtract /\ [][NextExtract]_vars

\* parse_email applied to any message
InitParse ==
    /\ InitTables
    /\ call \in {[fn |-> "parse_email", done |-> FALSE, arg |-> a, result |-> EmptyRecord] :
                  a \in ParseArguments}

\* parser_services.parse_email(raw_text=.., raw_html=.., from_email=..)
ParseCall ==
    /\ call.fn = "parse_email"
    /\ ~call.done
    /\ call' = [call EXCEPT
                    !.done = TRUE,
                    !.result = parse_email(call.arg.raw_text, call.arg.raw_html,
                                           call.arg.from_email)]
    /\ UNCHANGED <<orders, last, today, inbox, results, raw_emails, requests>>

NextParse == ParseCall

SpecParse == InitParse /\ [][NextParse]_vars

\* sync_gmail up to the loop: the messages are fetched and results is empty
sync_gmail_fetch(email_data_list) ==
    /\ call.fn = "sync_gmail" => call.done
    /\ call' = [fn |-> "sync_gmail", done |-> FALSE,
                result |-> [status |-> 0, results |-> <<>>]]
    /\ inbox' = email_data_list
    /\ results' = <<>>
    /\ UNCHANGED <<orders, last, today, raw_emails, requests>>

\* One iteration of the loop of sync_gmail: the next message is processed and
\* its outcome appended; an exception that leaves _process_single_email ends
\* the request with status 500
sync_gmail_process(user) ==
    /\ call.fn = "sync_gmail" /\ ~call.done
    /\ Len(results) < Len(inbox)
    /\ LET email_data == inbox[Len(results) + 1]
           p == _process_single_email(orders, raw_emails, last, user, email_data)
       IN  /\ orders' = p.orders
           /\ raw_emails' = p.raw_emails
           /\ last' = p.last
           /\ IF p.status = "raised"
              THEN /\ results' = results
                   /\ call' = [call EXCEPT !.done = TRUE,
                                           !.result = [status |-> 500, results |-> <<>>]]
              ELSE /\ results' = Append(results,
                                        [email_id |-> email_data.id, status |-> p.status])
                   /\ call' = call
    /\ UNCHANGED <<today, inbox, requests>>

\* sync_gmail after the loop: the response carries the results
sync_gmail_respond ==
    /\ call.fn = "sync_gmail" /\ ~call.done
    /\ Len(results) = Len(inbox)
    /\ call' = [call EXCEPT !.done = TRUE,
                            !.result = [status |-> 200, results |-> results]]
    /\ UNCHANGED <<orders, last, today, inbox, results, raw_emails, requests>>

NextSync ==
    \/ \E email_data_list \in Batches : sync_gmail_fetch(email_data_list)
    \/ sync_gmail_process("u1")
    \/ sync_gmail_respond

SpecSync == Init /\ [][NextSync]_vars

\* The calls on OrderProduct leave a note of the call in `last`
ProductCall(what, i, j) ==
    [user |-> orders[i].user, rec |-> EmptyRecord, outcome |-> what,
     target |-> i, item |-> j]

\* product.request_return() on the j-th line item of the i-th order
request_return(i, j) ==
    LET o == orders[i]
        p == o.products[j]
    IN  /\ orders' = IF can_return(p, o, today)
                     THEN [orders EXCEPT ![i] = SaveProduct(o, j, RequestReturn(p, o, today))]
                     ELSE orders
        /\ last' = ProductCall("request_return", i, j)
        /\ UNCHANGED <<today, call, inbox, results, raw_emails, requests>>

\* product.mark_returned() on the j-th line item of the i-th order
mark_returned(i, j) ==
    LET o == orders[i]
        p == o.products[j]
    IN  /\ orders' = IF MarkReturned(p) # p
                     THEN [orders EXCEPT ![i] = SaveProduct(o, j, MarkReturned(p))]
                     ELSE orders
        /\ last' = ProductCall("mark_returned", i, j)
        /\ UNCHANGED <<today, call, inbox, results, raw_emails, requests>>

\* OrderProductViewSet.partial_update: return_status is a writable field of the
\* serializer
partial_update(i, j, status) ==
    LET o == orders[i]
        p == o.products[j]
    IN  /\ orders' = [orders EXCEPT ![i] = SaveProduct(o, j, [p EXCEPT !.return_status = status])]
        /\ last' = ProductCall("partial_update", i, j)
        /\ UNCHANGED <<today, call, inbox, results, raw_emails, requests>>

\* A day passes
next_day ==
    /\ today < MaxDay
    /\ today' = today + 1
    /\ UNCHANGED <<orders, last, call, inbox, results, raw_emails, requests>>

NextReturns ==
    \/ \E rec \in ReturnRecords : create_or_update_order("u1", rec)
    \/ \E i \in 1..Len(orders) : \E j \in 1..Len(orders[i].products) : request_return(i, j)
    \/ \E i \in 1..Len(orders) : \E j \in 1..Len(orders[i].products) : mark_returned(i, j)
    \/ \E i \in 1..Len(orders) : \E j \in 1..Len(orders[i].products) :
           \E status \in RETURN_STATUS_CHOICES : partial_update(i, j, status)
    \/ next_day

SpecReturns == Init /\ [][NextReturns]_vars

\* create_or_update_order in thread w up to the match query: the guard has
\* passed and existing_order is loaded
create_or_update_order_match(w, user, rec) ==
    /\ requests[w].pc # "matched"
    /\ ~(rec.order_id = "" \/ rec.merchant_name = "")
    /\ LET i == ExistingOrder(orders, user, rec)
       IN  requests' = [requests EXCEPT ![w] =
                           [pc |-> "matched", user |-> user, rec |-> rec, existing |-> i,
                            loaded |-> IF i # 0 THEN <<orders[i]>> ELSE <<>>]]
    /\ UNCHANGED <<orders, last, today, call, inbox, results, raw_emails>>

\* create_or_update_order in thread w after the match query: the update of the
\* loaded order or the creation of a new one
create_or_update_order_write(w) ==
    /\ requests[w].pc = "matched"
    /\ LET r == AfterMatch(orders, requests[w])
       IN  /\ Len(r.orders) <= MaxOrders
           /\ orders' = r.orders
           /\ last' = [user |-> requests[w].user, rec |-> requests[w].rec,
                       outcome |-> r.outcome, target |-> r.target, item |-> 0]
    /\ requests' = [requests EXCEPT ![w].pc = "done"]
    /\ UNCHANGED <<today, call, inbox, results, raw_emails>>

NextRace ==
    \/ \E w \in Workers, user \in Users, rec \in RaceRecords :
           create_or_update_order_match(w, user, rec)
    \/ \E w \in Workers : create_or_update_order_write(w)

SpecRace == Init /\ [][NextRace]_vars

\* _parse_text_fallback applied to any text
InitText ==
    /\ InitTables
    /\ call \in {[fn |-> "_parse_text_fallback", done |-> FALSE, arg |-> t,
                   result |-> EmptyRecord] :
                  t \in Texts}

\* self._parse_text_fallback(raw_text, from_email) for a message of Myntra
TextCall ==
    /\ call.fn = "_parse_text_fallback"
    /\ ~call.done
    /\ call' = [call EXCEPT
                    !.done = TRUE,
                    !.result = _parse_text_fallback(TextFields(call.arg), "orders@myntra.com")]
    /\ UNCHANGED <<orders, last, today, inbox, results, raw_emails, requests>>

NextText == TextCall

SpecText == InitText /\ [][NextText]_vars

(***************************************************************************)
(* Properties                                                              *)
(***************************************************************************)

\* The confidence a record carries, whichever of the two keys it uses
IncomingConfidence(rec) ==
    IF rec.confidence # Absent THEN rec.confidence
    ELSE IF rec.parsed_confidence # Absent THEN rec.parsed_confidence
    ELSE 0

\* The call that led to the current state updated an order with a record of this stage
Merged(l, stage) == l.outcome = "updated" /\ l.rec.email_type = stage

\* C1: every stored order has return_deadline = delivery_date +
\* return_window_days, for every window >= 0, and has no return_deadline only
\* when it has no delivery_date.
C1_DeadlineIsDatePlusWindow ==
    \A i \in 1..Len(orders) :
        LET o == orders[i]
        IN  /\ o.return_window_days >= 0
            /\ o.delivery_date = None => o.return_deadline = None
            /\ o.delivery_date # None =>
                   o.return_deadline = o.delivery_date + o.return_window_days

\* C2: an update never lowers an order's parsed_confidence, and changes it only
\* when the incoming record's confidence is strictly greater than the stored one.
C2_ConfidenceMonotone ==
    [][last'.outcome = "updated" =>
          LET before == orders[last'.target].parsed_confidence
              after == orders'[last'.target].parsed_confidence
          IN  /\ after >= before
              /\ after # before => IncomingConfidence(last'.rec) > before]_vars

\* C2 witness: an update by a record of confidence 0.5 has left the order at 0.9
C2_Witness ==
    /\ last.outcome = "updated"
    /\ IncomingConfidence(last.rec) = 50
    /\ orders[last.target].parsed_confidence = 90

\* C3: an order's needs_review flag is true exactly when its parsed_confidence
\* is below 0.7.
C3_NeedsReviewIffLowConfidence ==
    \A i \in 1..Len(orders) :
        orders[i].needs_review <=> orders[i].parsed_confidence < 70

\* C3 witness: an update by a record of confidence 0.7 has left the order at
\* exactly 0.7, not flagged for review
C3_Witness ==
    /\ last.outcome = "updated"
    /\ IncomingConfidence(last.rec) = 70
    /\ orders[last.target].parsed_confidence = 70
    /\ ~orders[last.target].needs_review

\* C4: a delivery-stage merge into an order whose total_amount is non-zero
\* leaves total_amount unchanged (and stores the record's delivery_date).
C4_DeliveryKeepsTotal ==
    [][(Merged(last', "delivery") /\ orders[last'.target].total_amount # 0) =>
          /\ orders'[last'.target].total_amount = orders[last'.target].total_amount
          /\ last'.rec.delivery_date # None =>
                 orders'[last'.target].delivery_date = last'.rec.delivery_date]_vars

\* C5: after a confirmation-stage merge with a record that carries a non-empty
\* amount A, the order's total_amount is A.
C5_ConfirmationSetsTotal ==
    (Merged(last, "confirmation") /\ Truthy(last.rec.amount)) =>
        orders[last.target].total_amount = last.rec.amount

\* C9: a shipping-stage merge leaves the order's total_amount and every line
\* item's price and quantity unchanged.
C9_ShippingKeepsMoney ==
    [][Merged(last', "shipping") =>
          LET before == orders[last'.target]
              after == orders'[last'.target]
          IN  /\ after.total_amount = before.total_amount
              /\ Len(after.products) = Len(before.products)
              /\ \A k \in 1..Len(before.products) :
                     /\ after.products[k].product_name = before.products[k].product_name
                     /\ after.products[k].product_price = before.products[k].product_price
                     /\ after.products[k].product_quantity =
                            before.products[k].product_quantity]_vars

\* C9 witness: a shipping record stating an amount of 950 and an estimated
\* delivery has back-filled the delivery date of an order of two line items
\* whose total is 1200
C9_Witness ==
    /\ Merged(last, "shipping")
    /\ last.rec.amount = 950
    /\ orders[last.target].delivery_date = last.rec.estimated_delivery
    /\ orders[last.target].total_amount = 1200
    /\ Len(orders[last.target].products) = 2

\* C10: after a delivery-stage merge every line item of the order carries the
\* order's stored return_deadline.
C10_ItemsCarryOrderDeadline ==
    Merged(last, "delivery") =>
        \A k \in 1..Len(orders[last.target].products) :
            orders[last.target].products[k].return_deadline =
                orders[last.target].return_deadline

\* Order i of the table is of this user and merchant (compared without case)
\* and is known under this order id or tracking number
KnownAs(os, i, user, merchant, id) ==
    /\ os[i].user = user
    /\ Lower(os[i].merchant_name) = Lower(merchant)
    /\ os[i].order_id = id \/ os[i].tracking.tracking_number = id

\* C6: if an existing order of the same user and merchant has the stored
\* tracking number T, a record whose order id is T updates that order (an order
\* that stores the tracking number T) and the number of orders is unchanged.
C6_TrackingMatchUpdatesThatOrder ==
    [][\A i \in 1..Len(orders) :
          (/\ last'.rec.order_id # ""
           /\ orders[i].user = last'.user
           /\ Lower(orders[i].merchant_name) = Lower(last'.rec.merchant_name)
           /\ orders[i].tracking.tracking_number = last'.rec.order_id) =>
              /\ last'.outcome = "updated"
              /\ orders[last'.target].tracking.tracking_number = last'.rec.order_id
              /\ Len(orders') = Len(orders)]_vars

\* C6 as amended: such a record updates an existing order, namely the most
\* recently created order of that user and merchant whose order id or stored
\* tracking number is T, and the number of orders is unchanged.
C6_TrackingMatchUpdatesNewestMatch ==
    [][\A i \in 1..Len(orders) :
          (/\ last'.rec.order_id # ""
           /\ orders[i].user = last'.user
           /\ Lower(orders[i].merchant_name) = Lower(last'.rec.merchant_name)
           /\ orders[i].tracking.tracking_number = last'.rec.order_id) =>
              /\ last'.outcome = "updated"
              /\ Len(orders') = Len(orders)
              /\ last'.target >= i
              /\ KnownAs(orders, last'.target, last'.user,
                         last'.rec.merchant_name, last'.rec.order_id)
              /\ \A j \in 1..Len(orders) :
                     KnownAs(orders, j, last'.user,
                             last'.rec.merchant_name, last'.rec.order_id)
                         => j <= last'.target]_vars

\* C6 witness: a record labelled TRK9 has updated the order OD1 that stores
\* TRK9 as its tracking number
C6_Witness ==
    /\ last.outcome = "updated"
    /\ last.rec.order_id = "TRK9"
    /\ orders[last.target].order_id = "OD1"
    /\ orders[last.target].tracking.tracking_number = "TRK9"

\* C7: no two orders of the same user have the same merchant name (compared
\* without case) and the same external order id.
C7_NoDuplicateOrders ==
    \A i, j \in 1..Len(orders) :
        (/\ i # j
         /\ orders[i].user = orders[j].user
         /\ Lower(orders[i].merchant_name) = Lower(orders[j].merchant_name))
            => orders[i].order_id # orders[j].order_id

\* C7 witness: a record spelling the merchant differently from the stored order
\* has updated it, in a table of two orders
C7_Witness ==
    /\ last.outcome = "updated"
    /\ Len(orders) = 2
    /\ last.rec.merchant_name # orders[last.target].merchant_name
    /\ last.rec.order_id = orders[last.target].order_id

\* The record has none of order_date, shipping_date and delivery_date
NoUsableDate(rec) ==
    ~Truthy(rec.order_date) /\ ~Truthy(rec.shipping_date) /\ ~Truthy(rec.delivery_date)

SameNameSize(o, j) ==
    {k \in 1..Len(o.products) :
        /\ o.products[k].product_name = o.products[j].product_name
        /\ o.products[k].product_size = o.products[j].product_size}

\* C11: after any sequence of creations and merges, no order has two line items
\* with the same product name and the same size label.
C11_NoTwoItemsWithSameNameAndSize ==
    \A i \in 1..Len(orders) :
        \A j \in 1..Len(orders[i].products) : SameNameSize(orders[i], j) = {j}

\* C11 witness: a confirmation record that lists Shirt/M was merged into an
\* order that holds Shirt in two sizes
C11_Witness ==
    /\ Merged(last, "confirmation")
    /\ \E n \in 1..Len(last.rec.products) :
           last.rec.products[n].name = "Shirt" /\ last.rec.products[n].size = "M"
    /\ \E j, k \in 1..Len(orders[last.target].products) :
           /\ orders[last.target].products[j].product_name = "Shirt"
           /\ orders[last.target].products[j].product_size = "M"
           /\ orders[last.target].products[k].product_name = "Shirt"
           /\ orders[last.target].products[k].product_size = "L"

\* C12: no call lowers the unit price of a line item: a stored price is replaced
\* only by a strictly higher one.
C12_PriceNeverDecreases ==
    [][\A i \in 1..Len(orders) :
          \A j \in 1..Len(orders[i].products) :
              orders'[i].products[j].product_price >= orders[i].products[j].product_price]_vars

\* The call that led to the state l2 fed the record of the call before it into
\* the order that call created or updated
FedAgain(l1, l2) ==
    /\ l1.outcome \in {"created", "updated"}
    /\ l2.outcome = "updated"
    /\ l2.rec = l1.rec
    /\ l2.user = l1.user
    /\ l2.target = l1.target

\* C13: feeding the same record into create_or_update_order a second time for
\* the same order changes neither the number of its line items nor the quantity
\* of any of them, whatever the stage of the record.
C13_SecondFeedKeepsItemsAndQuantities ==
    [][FedAgain(last, last') =>
          LET before == orders[last'.target].products
              after == orders'[last'.target].products
          IN  /\ Len(after) = Len(before)
              /\ \A j \in 1..Len(before) :
                     after[j].product_quantity = before[j].product_quantity]_vars

\* C13 witness: the confirmation record that lists Shirt/M twice was merged into
\* the order it created (only that creation stores a quantity of 2)
C13_Witness ==
    /\ Merged(last, "confirmation")
    /\ Len(last.rec.products) = 2
    /\ last.rec.products[1] = Product("Shirt", "M", 1, 500)
    /\ last.rec.products[2] = Product("Shirt", "M", 1, 600)
    /\ Len(orders[last.target].products) = 1
    /\ orders[last.target].products[1].product_quantity = 2

\* detect_email_type has returned for the document call.arg
Detected == call.fn = "detect_email_type" /\ call.done

\* The checks of element ids in the order they are made: the id looked for, the
\* word the text must contain as well ("" for none) and the stage returned
MarkerChecks ==
    <<[id |-> "AvailableTillDateId", word |-> "", stage |-> "delivery"],
      [id |-> "OrderDeliveredDateId", word |-> "", stage |-> "delivery"],
      [id |-> "CourierDisplayNameId", word |-> "", stage |-> "shipping"],
      [id |-> "Tracking", word |-> "", stage |-> "shipping"],
      [id |-> "OrderId", word |-> "shipped", stage |-> "shipping"],
      [id |-> "OrderId", word |-> "", stage |-> "confirmation"],
      [id |-> "PacketCreationTimeId", word |-> "", stage |-> "confirmation"],
      [id |-> "CustomerPromiseTimeId", word |-> "", stage |-> "confirmation"]>>

\* The checks that fire on a document
Firing(doc) ==
    {n \in 1..Len(MarkerChecks) :
        /\ MarkerChecks[n].id \in doc.ids
        /\ MarkerChecks[n].word # "" => MarkerChecks[n].word \in doc.text}

\* The categories that have a phrase in the text, as positions in the dict order
CategoriesPresent(doc) ==
    {n \in 1..Len(EMAIL_TYPE_PATTERNS) : EMAIL_TYPE_PATTERNS[n].patterns \cap doc.text # {}}

\* C14 as stated: the result is one of the four stages; when an element id is
\* present the result is decided by the ids alone, whatever phrases the text
\* has; without one it is the first category (confirmation, shipping, delivery)
\* with a phrase in the text, else unknown.
C14_MarkersAloneDecide ==
    Detected =>
        /\ call.result \in {"confirmation", "shipping", "delivery", "unknown"}
        /\ call.arg.ids # {} =>
               \A t \in SUBSET TextPhrases :
                   detect_email_type([ids |-> call.arg.ids, text |-> t]) = call.result
        /\ call.arg.ids = {} =>
               call.result = IF CategoriesPresent(call.arg) = {} THEN "unknown"
                             ELSE EMAIL_TYPE_PATTERNS[Least(CategoriesPresent(call.arg))].email_type

\* C14 amended: the result is the stage of the first check that fires, where
\* the li#OrderId check yields shipping when the text contains "shipped" and
\* confirmation otherwise; only when no check fires is it the first category with
\* a phrase in the text, else unknown.
C14_FirstFiringCheckDecides ==
    Detected =>
        /\ call.result \in {"confirmation", "shipping", "delivery", "unknown"}
        /\ Firing(call.arg) # {} =>
               call.result = MarkerChecks[Least(Firing(call.arg))].stage
        /\ Firing(call.arg) = {} =>
               call.result = IF CategoriesPresent(call.arg) = {} THEN "unknown"
                             ELSE EMAIL_TYPE_PATTERNS[Least(CategoriesPresent(call.arg))].email_type

\* C14 witness: a document with the delivered-date element and the text "order
\* confirmed" has been classified delivery
C14_Witness ==
    /\ Detected
    /\ call.arg = [ids |-> {"OrderDeliveredDateId"}, text |-> {"order confirmed"}]
    /\ call.result = "delivery"

\* extract_products has returned for the document call.arg
Extracted == call.fn = "extract_products" /\ call.done

\* C15 as stated: no product accepted by a method of the H&M cascade has a price
\* of 49 or less, or of 5000 or more.
C15_PriceAbove49Below5000 ==
    Extracted =>
        \A n \in 1..Len(call.result.accepted) :
            /\ call.result.accepted[n].price > 49 * OneUnit
            /\ call.result.accepted[n].price < 5000 * OneUnit

\* C15 amended: no product accepted by a method of the H&M cascade has a price
\* below 50 or above 5000; a price of exactly 50 or exactly 5000 is accepted.
C15_PriceFrom50To5000 ==
    Extracted =>
        \A n \in 1..Len(call.result.accepted) :
            /\ call.result.accepted[n].price >= 50 * OneUnit
            /\ call.result.accepted[n].price <= 5000 * OneUnit

\* C15 witness: the link method met prices of 49.50 and 5000.50 and the row
\* method accepted a product at exactly 5000.00
C15_Witness ==
    /\ Extracted
    /\ call.arg.links = <<Candidate("Wide Jeans", "", 4950), Candidate("Wide Jeans", "", 500050)>>
    /\ \E n \in 1..Len(call.result.accepted) :
           call.result.accepted[n].price = 5000 * OneUnit

\* What each method accepts when it runs on its own, in the order of the cascade:
\* anchor links, tagged rows, tables, containers, free text
AcceptedAlone(doc) ==
    <<LinkMethod(doc.links, <<>>),
      ScanMethod(doc.rows, <<>>, TRUE),
      ScanMethod(doc.tables, <<>>, TRUE),
      ScanMethod(doc.divs, <<>>, FALSE),
      ScanMethod(doc.text, <<>>, FALSE)>>

\* C16: the accepted products are exactly those of the first method, in the
\* order links, rows, tables, containers, free text, that accepts at least one;
\* no later method contributes, and they are the list that is returned.
C16_FirstAcceptingMethodOnly ==
    Extracted =>
        LET alone == AcceptedAlone(call.arg)
            accepting == {n \in 1..Len(alone) : alone[n] # <<>>}
        IN  /\ call.result.accepted =
                   IF accepting = {} THEN <<>> ELSE alone[Least(accepting)]
            /\ accepting # {} => call.result.products = call.result.accepted

\* C16 witness: the link method accepted nothing, the row method one product,
\* and the table method would have accepted two
C16_Witness ==
    /\ Extracted
    /\ AcceptedAlone(call.arg)[1] = <<>>
    /\ Len(AcceptedAlone(call.arg)[2]) = 1
    /\ Len(AcceptedAlone(call.arg)[3]) = 2
    /\ call.result.accepted = AcceptedAlone(call.arg)[2]

\* parse_email has returned for the message call.arg
Parsed == call.fn = "parse_email" /\ call.done

\* C17: parse_email returns the structural extraction only when its confidence
\* is strictly greater than 0.7; with no HTML body, with no structural parser
\* for the sender's merchant, or with a document of unknown stage (confidence
\* 0.5) it returns the result of the regex fallback.
C17_StructuralOnlyAboveThreshold ==
    Parsed =>
        LET a == call.arg
            merchant == _extract_merchant(a.from_email)
            fallback == _parse_text_fallback(a.raw_text, a.from_email)
        IN  /\ a.raw_html = <<>> => call.result = fallback
            /\ merchant \notin {"Myntra", "H&M"} => call.result = fallback
            /\ (a.raw_html # <<>> /\ merchant \in {"Myntra", "H&M"}) =>
                   LET structural == HTMLParse(merchant, a.raw_html[1])
                   IN  /\ structural.confidence * 10 > 7 * 100 => call.result = structural
                       /\ structural.confidence * 10 <= 7 * 100 => call.result = fallback
                       /\ detect_email_type(a.raw_html[1]) = "unknown" =>
                              call.result = fallback
            /\ call.result.confidence # Absent => call.result.confidence * 10 > 7 * 100

\* C17 witness: a Myntra message whose HTML body has no recognisable stage was
\* parsed by the regex fallback
C17_Witness ==
    /\ Parsed
    /\ call.arg.from_email = "orders@myntra.com"
    /\ call.arg.raw_html # <<>>
    /\ detect_email_type(call.arg.raw_html[1]) = "unknown"
    /\ call.result.confidence = Absent
    /\ call.result.parsed_confidence # Absent

\* C18: the outcomes appended so far are those of the first messages of the
\* batch, one per message and in retrieval order; the request ends with status
\* 200 and one outcome for every retrieved message, also when the outcome of an
\* earlier message is an error.
C18_OneOutcomePerMessageInOrder ==
    call.fn = "sync_gmail" =>
        /\ Len(results) <= Len(inbox)
        /\ \A k \in 1..Len(results) :
               /\ results[k].email_id = inbox[k].id
               /\ results[k].status \in {"success", "failed", "error"}
        /\ call.done =>
               /\ call.result.status = 200
               /\ call.result.results = results
               /\ Len(results) = Len(inbox)

\* C18 witness: a request has ended whose first message failed and whose second
\* message created or updated an order
C18_Witness ==
    /\ call.fn = "sync_gmail" /\ call.done
    /\ Len(call.result.results) = 2
    /\ call.result.results[1].status = "error"
    /\ call.result.results[2].status = "success"

\* C19: a message whose outcome is an error leaves the Order table and the
\* OrderProduct rows as they were.
C19_ErrorLeavesOrdersUnchanged ==
    [][(/\ Len(results') = Len(results) + 1
        /\ results'[Len(results')].status = "error") => orders' = orders]_vars

\* C20: a call of request_return or mark_returned changes the return_status of
\* a line item only from not_returned to return_requested or from
\* return_requested to returned; a status of returned or return_rejected is
\* left as it is.
C20_StatusOnlyMovesForward ==
    [][last'.outcome \in {"request_return", "mark_returned"} =>
          \A i \in 1..Len(orders) :
              \A j \in 1..Len(orders[i].products) :
                  LET before == orders[i].products[j].return_status
                      after == orders'[i].products[j].return_status
                  IN  after # before =>
                          \/ before = "not_returned" /\ after = "return_requested"
                          \/ before = "return_requested" /\ after = "returned"]_vars

\* C20 witness: request_return was called on a rejected line item of an order
\* that has a returned line item
C20_Witness ==
    /\ last.outcome = "request_return"
    /\ orders[last.target].products[last.item].return_status = "return_rejected"
    /\ \E j \in 1..Len(orders[last.target].products) :
           orders[last.target].products[j].return_status = "returned"

\* C21: a call of request_return or mark_returned changes the return_status of
\* its line item only when today is on or before the item's return deadline;
\* when the item has no deadline or the deadline has passed the status is left
\* as it is.
C21_TransitionsOnlyBeforeDeadline ==
    [][last'.outcome \in {"request_return", "mark_returned"} =>
          LET o == orders[last'.target]
              p == o.products[last'.item]
              deadline == OrderProduct_calculate_return_deadline(p, o)
              after == orders'[last'.target].products[last'.item].return_status
          IN  after # p.return_status => Truthy(deadline) /\ today <= deadline]_vars

\* The calls of two threads are for the same (user, merchant, order id)
SameIdentity(a, b) ==
    /\ a.user = b.user
    /\ Lower(a.rec.merchant_name) = Lower(b.rec.merchant_name)
    /\ a.rec.order_id = b.rec.order_id

\* The rows of the Order table with the identity of the call
RowsOf(req) ==
    {i \in 1..Len(orders) :
        /\ orders[i].user = req.user
        /\ Lower(orders[i].merchant_name) = Lower(req.rec.merchant_name)
        /\ orders[i].order_id = req.rec.order_id}

\* C22: when two calls of create_or_update_order for the same (user, merchant,
\* order id) have both run the match query before either stored its order
\* (both found nothing) and both have finished, the table holds two orders of
\* that identity.
C22_InterleavedCreationsDuplicate ==
    \A w1 \in Workers, w2 \in Workers :
        (/\ w1 # w2
         /\ requests[w1].pc = "done" /\ requests[w2].pc = "done"
         /\ requests[w1].existing = 0 /\ requests[w2].existing = 0
         /\ SameIdentity(requests[w1], requests[w2]))
        => Cardinality(RowsOf(requests[w1])) >= 2

\* C22 witness: both threads found no order OD1 of u1, both have finished, and
\* the table holds two such orders
C22_Witness ==
    /\ requests["w1"].pc = "done" /\ requests["w2"].pc = "done"
    /\ requests["w1"].existing = 0 /\ requests["w2"].existing = 0
    /\ SameIdentity(requests["w1"], requests["w2"])
    /\ Cardinality(RowsOf(requests["w1"])) = 2

\* The stored RawEmail rows of the user with the message id
StoredAs(user, message_id) ==
    {j \in 1..Len(raw_emails) :
        raw_emails[j].user = user /\ raw_emails[j].message_id = message_id}

\* The loop of sync_gmail is about to process a message whose id is stored
Reprocessing ==
    /\ call.fn = "sync_gmail" /\ ~call.done
    /\ Len(results) < Len(inbox)
    /\ StoredAs("u1", inbox[Len(results) + 1].id) # {}

\* What parse and Step 2.5 make of the message against the stored RawEmail
Reparsed(email_data) ==
    FixDeliveryDate(
        parse_email(email_data.raw_text, email_data.raw_html, email_data.from_email),
        raw_emails[Least(StoredAs("u1", email_data.id))])

\* The orders in os with the user, merchant and order id of the record
OrdersOf(os, user, rec) ==
    {i \in 1..Len(os) :
        /\ os[i].user = user
        /\ Lower(os[i].merchant_name) = Lower(rec.merchant_name)
        /\ os[i].order_id = rec.order_id}

\* C23: there is at most one RawEmail per (user, message id); processing a
\* message whose id is stored for the user stores no RawEmail, merges what the
\* parser makes of the message against the stored RawEmail, reports the
\* outcome of that merge, and leaves at most one order with the identity of
\* the message's record.
C23_StoredMessageIsReprocessed ==
    /\ [](\A j \in 1..Len(raw_emails), k \in 1..Len(raw_emails) :
             (/\ raw_emails[j].user = raw_emails[k].user
              /\ raw_emails[j].message_id = raw_emails[k].message_id) => j = k)
    /\ [][Reprocessing =>
             LET email_data == inbox[Len(results) + 1]
                 r == MergerResult(orders, "u1", Reparsed(email_data))
             IN  /\ raw_emails' = raw_emails
                 /\ orders' = r.orders
                 /\ Len(results') = Len(results) + 1
                 /\ results'[Len(results')].status =
                        CASE r.outcome = "error" -> "error"
                          [] r.outcome = "abstained" -> "failed"
                          [] OTHER -> "success"
                 /\ Cardinality(OrdersOf(orders', "u1", Reparsed(email_data))) <= 1]_vars

\* C23 witness: the same delivery message was processed twice in one batch,
\* both times with success, and there is one RawEmail and one order
C23_Witness ==
    /\ call.fn = "sync_gmail"
    /\ Len(results) = 2
    /\ inbox[1].id = "g1" /\ inbox[2].id = "g1"
    /\ results[1].status = "success" /\ results[2].status = "success"
    /\ Len(raw_emails) = 1
    /\ Len(orders) = 1

\* C24: a shipping-stage merge changes the order's delivery_date only when it
\* was unset before the merge, and then to the record's estimated delivery; a
\* delivery_date that was set, and the order's return_deadline with it, is
\* left as it was.
C24_ShippingBackfillsOnlyUnsetDeliveryDate ==
    [][Merged(last', "shipping") =>
          LET before == orders[last'.target]
              after == orders'[last'.target]
          IN  /\ after.delivery_date # before.delivery_date =>
                     /\ ~Truthy(before.delivery_date)
                     /\ Truthy(last'.rec.estimated_delivery)
                     /\ after.delivery_date = last'.rec.estimated_delivery
              /\ Truthy(before.delivery_date) =>
                     /\ after.delivery_date = before.delivery_date
                     /\ after.return_deadline = before.return_deadline]_vars

\* C24 witness: a shipping record with estimated delivery on day 4 was merged
\* into an order delivered on day 3 or 5 that has a return deadline
C24_Witness ==
    /\ Merged(last, "shipping")
    /\ last.rec.estimated_delivery = 4
    /\ orders[last.target].delivery_date \in {3, 5}
    /\ Truthy(orders[last.target].return_deadline)

\* The line items of o with the name and the size label of the listed product d
ItemsLike(o, d) ==
    {j \in 1..Len(o.products) :
        /\ o.products[j].product_name = d.name
        /\ o.products[j].product_size = d.size}

\* C25: in a confirmation-stage merge a listed product whose name the order
\* has, but not in its size, becomes a new line item, and a line item keeps
\* its price unless the record lists a product of its name and size.
C25_ProductsMatchedByNameAndSize ==
    [][Merged(last', "confirmation") =>
          LET before == orders[last'.target]
              after == orders'[last'.target]
              listed == last'.rec.products
          IN  /\ \A n \in 1..Len(listed) :
                     (FirstByName(before, listed[n].name) # 0
                      /\ ItemsLike(before, listed[n]) = {})
                     => ItemsLike(after, listed[n]) # {}
              /\ \A j \in 1..Len(before.products) :
                     (\A n \in 1..Len(listed) : j \notin ItemsLike(before, listed[n]))
                     => after.products[j].product_price = before.products[j].product_price]_vars

\* A candidate of Method 1 that the method can accept: a valid name and a price
\* inside the band
Acceptable(c) ==
    /\ is_valid_product_name(c.name)
    /\ c.price # None
    /\ InBand(c.price)

\* C26: two candidates that Method 1 finds in one document with the same name
\* and prices less than one currency unit apart end up as a single returned
\* item whose quantity is the sum of theirs and whose price is the higher of
\* the two.
C26_NearDuplicatesAreMerged ==
    Extracted =>
        \A a \in 1..Len(call.arg.links), b \in 1..Len(call.arg.links) :
            LET ca == call.arg.links[a]
                cb == call.arg.links[b]
                items == {n \in 1..Len(call.result.products) :
                             call.result.products[n].name = ca.name}
            IN  (/\ a < b
                 /\ Acceptable(ca) /\ Acceptable(cb)
                 /\ ca.name = cb.name
                 /\ Abs(ca.price - cb.price) < OneUnit)
                => /\ Cardinality(items) = 1
                   /\ \A n \in items :
                          /\ call.result.products[n].quantity >= 2
                          /\ call.result.products[n].price >= ca.price
                          /\ call.result.products[n].price >= cb.price

\* The fields of a record that the weighted sum counts as populated
Populated(rec) ==
    {f \in {"merchant_name", "order_id"} : rec[f] # ""}
    \cup {f \in {"delivery_date", "return_deadline", "amount"} : Truthy(rec[f])}
    \cup {f \in {"products"} : rec[f] # <<>>}

\* The HTML bodies of a recognisable stage, with the merchants that have a parser
StagedBodies ==
    {x \in html_parsers \X HtmlBodies : detect_email_type(x[2]) # "unknown"}

\* C27: the confidence of a record that a merchant's parser produces for a
\* confirmation, shipping or delivery document is the weighted sum over its
\* populated fields (merchant name 0.1, order id 0.3, delivery date 0.2, return
\* deadline 0.2, any product 0.1, amount 0.1) and lies in [0, 1]; a record
\* whose populated fields are a subset of this record's has no higher
\* confidence.
C27_ConfidenceIsWeightedSum ==
    (/\ Parsed
     /\ call.arg.raw_html # <<>>
     /\ <<_extract_merchant(call.arg.from_email), call.arg.raw_html[1]>> \in StagedBodies)
    => LET rec == HTMLParse(_extract_merchant(call.arg.from_email), call.arg.raw_html[1])
       IN  /\ rec.confidence = calculate_confidence(rec)
           /\ rec.confidence >= 0 /\ rec.confidence <= 100
           /\ \A x \in StagedBodies :
                  Populated(HTMLParse(x[1], x[2])) \subseteq Populated(rec)
                  => HTMLParse(x[1], x[2]).confidence <= rec.confidence

\* The value of the first pattern, in list order, that gives one; None when
\* no pattern does
RECURSIVE FirstValue(_)
FirstValue(matches) ==
    IF matches = <<>> THEN None
    ELSE IF HasValue(Head(matches)) THEN Head(matches)
    ELSE FirstValue(Tail(matches))

\* C28: the regex fallback takes the order id, the order date, the delivery
\* date and the amount each from the first pattern of its list that matches
\* and gives a value; a pattern later in the list never replaces that value.
C28_FirstMatchingPatternWins ==
    (call.fn = "_parse_text_fallback" /\ call.done) =>
        /\ call.result.order_id = _extract_order_id(call.arg.order_id)
        /\ \A n \in 1..Len(call.arg.order_id) :
               (call.arg.order_id[n] # ""
                /\ \A k \in 1..(n - 1) : call.arg.order_id[k] = "")
               => call.result.order_id = call.arg.order_id[n]
        /\ call.result.delivery_date = FirstValue(SubSeq(call.arg.dates, 1, 1))
        /\ call.result.order_date = FirstValue(SubSeq(call.arg.dates, 2, Len(call.arg.dates)))
        /\ call.result.amount = FirstValue(call.arg.amount)

\* The fields of the tracking blob
TrackingFields ==
    {"tracking_number", "logistics_partner", "tracking_url", "shipping_date",
     "estimated_delivery"}

\* What a record states for the fields of the tracking blob, dates as stored
Stated(rec) ==
    [tracking_number |-> rec.tracking_number,
     logistics_partner |-> rec.logistics_partner,
     tracking_url |-> rec.tracking_url,
     shipping_date |-> IF Truthy(rec.shipping_date) THEN DateStr(rec.shipping_date) ELSE "",
     estimated_delivery |->
         IF Truthy(rec.estimated_delivery) THEN DateStr(rec.estimated_delivery) ELSE ""]

\* C29: a merge into an order removes no tracking field that the order's
\* provenance holds; a field that is added or replaced has the non-empty value
\* the incoming record states for it.
C29_TrackingFieldsAreNeverRemoved ==
    [][last'.outcome = "updated" =>
          \A f \in TrackingFields :
              LET before == orders[last'.target].tracking[f]
                  after == orders'[last'.target].tracking[f]
              IN  /\ before # "" => after # ""
                  /\ after # before =>
                         after # "" /\ after = Stated(last'.rec)[f]]_vars

\* C29 witness: a merge of a record that states no shipping date has replaced
\* the tracking number TRK9 by TRK7 and kept the stored shipping date
C29_Witness ==
    /\ last.outcome = "updated"
    /\ last.rec.tracking_number = "TRK7"
    /\ ~Truthy(last.rec.shipping_date)
    /\ orders[last.target].tracking.tracking_number = "TRK7"
    /\ orders[last.target].tracking.shipping_date = "2"
    /\ orders[last.target].tracking.logistics_partner = "Delhivery"

\* The step saves or deletes a line item of the order last'.target: a creation,
\* a deletion, a delivery-stage merge into an order that has line items, or a
\* confirmation-stage merge that lists a priced product or a product whose
\* name the order does not have
ItemWritten ==
    \/ last'.outcome \in {"created", "destroy"}
    \/ /\ Merged(last', "delivery")
       /\ orders[last'.target].products # <<>>
    \/ /\ Merged(last', "confirmation")
       /\ \E n \in 1..Len(last'.rec.products) :
              /\ last'.rec.products[n].name # ""
              /\ \/ Truthy(last'.rec.products[n].price)
                 \/ FirstByName(orders[last'.target], last'.rec.products[n].name) = 0

\* C30: after a call that saves or deletes a line item of an order, the order's
\* stored total_amount is the sum of price x quantity over its line items; an
\* order just created through the merger has that sum, not the amount stated
\* in the record.
C30_TotalIsSumOfLineItems ==
    [][ItemWritten =>
          orders'[last'.target].total_amount =
              SumProducts(orders'[last'.target].products)]_vars

\* C30 witness: an order was created from a record that states an amount of
\* 1200 and lists two products of 500 and 450; its total is 950
C30_Witness ==
    /\ last.outcome = "created"
    /\ last.rec.amount = 1200
    /\ Len(orders[last.target].products) = 2
    /\ orders[last.target].total_amount = 950

====
